---- MODULE Spec2Model ----
(***************************************************************************)
(* Connection lifecycle of rx-mysql (src/src/db.js): init()'s closure      *)
(* state, connect(), disconnect(), establishTunnel(), the pool's           *)
(* 'connection' hook, the lazy pool proxy and executeQuery()'s dispatch.   *)
(*                                                                         *)
(* The driver (mysql2) and the tunnel provider (tunnel-ssh) are external:  *)
(* every promise they hand out settles at a moment and with an outcome the *)
(* code does not control, so each settlement is a separate action.  An     *)
(* async function's continuation after an await it alone is waiting on is  *)
(* taken in the same step as the settlement it waits for.  Continuations   *)
(* of callers awaiting a settled connect promise are microtasks: they run  *)
(* before the event loop delivers the next driver event, in any order, and *)
(* the host may make further calls in between.  Of the driver the model    *)
(* assumes only that no statement succeeds on a pool whose end() has       *)
(* resolved; end() may also reject, which disconnect() catches.            *)
(*                                                                         *)
(* Spec is the lifecycle (connect, disconnect, the lazy proxy, dispatch);  *)
(* SpecHook is the pool's 'connection' hook, which touches nothing but the *)
(* connection it is called with, on top of one connect and one disconnect. *)
(* SpecConstruction starts before init() has built the instance, with      *)
(* lazyConnect on or off.  SpecPassthrough adds escape/escapeId/format to  *)
(* Spec.  SpecExecution is executeQuery() on a connected instance: the     *)
(* statement, the rollback after a failure, the error the caller gets;     *)
(* SpecConfig is the queryConfig of the pool and of checked-out            *)
(* connections merged with the call's; SpecResult is what a successful     *)
(* call returns.  SpecTest is the test double: createTestPoolProxy and the *)
(* test-mode methods, which share no state with the lifecycle.             *)
(* SpecTestMode is the test double behind connect() and disconnect().      *)
(* SpecFormat is queryFormat of helpers.js on templates and parameter sets *)
(* taken character by character; SpecCasing is convertColumnNameCasing on  *)
(* the results of a call, over all short column names.  SpecScenario is    *)
(* queryFormat on templates that mix both marker kinds with an iteration;  *)
(* SpecTestFormat is the test double's query() on templates.  SpecLive is  *)
(* the lifecycle of a tunnelled instance under weak fairness of the        *)
(* continuations and of the driver's settlements.  SpecManager is the      *)
(* status-based manager of src/unnamed/part_000.                           *)
(***************************************************************************)
EXTENDS Integers, Sequences, FiniteSets, TLC

\* ---- bounds -------------------------------------------------------------
MaxCalls == 4           \* calls the host makes on the instance, disconnect() included
MaxConns == 2           \* physical connections the driver opens
MaxQueries == 2         \* query() calls in flight at once on a connected instance
MaxLogged == 3          \* statements appended to the test double's transaction log
MaxTokens == 4          \* elements (characters and directives) of a query template
MaxKey == 4             \* characters of a column name

\* ---- program constants --------------------------------------------------
DefaultMaxExecutionTime == 30000

Callers == 1..MaxCalls
Disconnects == 1..MaxCalls

\* null for object references (pool, promise, tunnel, connection ids are 1..)
Null == 0
NoError == <<>>

VARIABLES
  testMode,           \* generalConfig.testMode
  lazyConnect,        \* connectionConfig.lazyConnect
  production,         \* process.env.NODE_ENV === 'production'
  sshHost,            \* sshTunnelConfig.sshOptions.host is set
  maxExecutionTime,   \* connectionConfig.maxExecutionTime
  connectionPromise,  \* let connectionPromise: Null or a promise id
  tunnelServer,       \* let tunnelServer: Null or a tunnel id
  pool,               \* let pool: Null or a pool id
  poolConfigHost,     \* poolConfig.host/port: Null = configured remote, else a tunnel's local endpoint
  realPool,           \* createLazyPoolProxy's let realPool
  promises,           \* the promises connect() created, with their async body's position
  tunnels,            \* tunnel servers created by establishTunnel
  pools,              \* pools created by mysql.createPool
  conns,              \* physical connections opened by the driver
  callers,            \* host call chains
  disconnects,        \* disconnect() invocations
  resultedPool,       \* let resultedPool: what init() hands out as the instance's pool
  checkouts,          \* the connection objects target.getConnection() has handed out
  queries,            \* executeQuery() invocations on a connected instance
  lastQuery,          \* let lastQuery (test mode)
  lastTransaction,    \* let lastTransaction (test mode)
  transationStarted,  \* let transationStarted (test mode)
  resultsByMatch,     \* let resultsByMatch (test mode)
  returned,           \* what the latest query(), getConnection() or release() of the test double returned
  history,            \* what the host has done to the test double (for the claims)
  formatting,         \* a queryFormat(query, values) call: its arguments, its position, its locals
  status              \* let status of the status-based manager (src/unnamed/part_000)

config == <<testMode, lazyConnect, production, sshHost, maxExecutionTime>>
closure == <<connectionPromise, tunnelServer, pool, poolConfigHost>>
lifecycle == <<closure, promises, tunnels, pools, conns, callers, disconnects>>
execution == <<checkouts, queries>>
testDouble == <<lastQuery, lastTransaction, transationStarted, resultsByMatch, returned,
                history>>
\* what connect(), disconnect() and the lazy proxy's calls never assign
other == <<resultedPool, execution, testDouble>>
vars == <<testMode, lazyConnect, production, sshHost, maxExecutionTime, connectionPromise,
          tunnelServer, pool, poolConfigHost, realPool, promises, tunnels, pools, conns,
          callers, disconnects, resultedPool, checkouts, queries, lastQuery,
          lastTransaction, transationStarted, resultsByMatch, returned, history,
          formatting, status>>

\* provider: the pool executeQuery's `this` belongs to; viaConn: `this` is a
\* connection checked out of that pool rather than the pool itself
IdleCaller == [kind |-> "none", pc |-> "idle", att |-> Null, provider |-> Null,
               viaConn |-> FALSE, outcome |-> "none", value |-> Null, error |-> NoError]

IdleDisconnect == [pc |-> "idle", target |-> Null]

Queries == 1..MaxQueries

\* the keys of a queryConfig that executeQuery reads
ConfigKeys == {"nativeQuery", "keepOriginalCasing"}

\* a queryConfig: some of the keys, each true or false; a call made without one
\* (undefined) spreads to nothing, like {}
Configs == UNION {[K -> BOOLEAN] : K \in SUBSET ConfigKeys}
NoConfig == CHOOSE cfg \in Configs : DOMAIN cfg = {}

\* queryProvider when `this` is the core pool; a checked-out connection is 1..
PoolProvider == 0

NoSqlError == [origin |-> "none", message |-> "none", rawMessage |-> "unset"]
NoResult == [shape |-> "none"]

\* this: executeQuery's `this`; driver: the results the driver resolved with; ran: the statements it handed to the driver, in
\* order, each with the provider it was called on; failure: the error the
\* caller's statement failed with
IdleQuery == [pc |-> "idle", this |-> PoolProvider, queryConfig |-> NoConfig,
              mergedQueryConfig |-> NoConfig, ran |-> <<>>, failure |-> NoSqlError,
              driver |-> NoResult, outcome |-> "none", error |-> NoSqlError,
              value |-> NoResult]

\* JavaScript values of the test double: undefined, null, a string as the
\* sequence of the pieces it was put together from, an array
Undefined == [type |-> "undefined"]
NullValue == [type |-> "null"]
Str(text) == [type |-> "string", text |-> text]
List(items) == [type |-> "array", items |-> items]

\* recent: the bound SQL of the latest query() that succeeded; cleared: lastQuery
\* was cleared since; tx: where the transaction begun last stands, "disturbed"
\* when something other than its queries and its one commit or rollback touched
\* the log; txQueries: the bound SQL of the queries made since it began
NoHistory == [recent |-> Undefined, cleared |-> FALSE, tx |-> "none", txQueries |-> <<>>]

\* a queryFormat call: compiled is the template engine's output, bound what
\* bindQueryParams made of it, finalQuery what the call returned
IdleFormat == [pc |-> "idle", query |-> <<>>, values |-> Undefined, compiled |-> <<>>,
               bound |-> <<>>, finalQuery |-> <<>>, error |-> "none"]

InitInstance ==
  /\ connectionPromise = Null
  /\ tunnelServer = Null
  /\ pool = Null
  /\ poolConfigHost = Null
  /\ realPool = Null
  /\ promises = <<>>
  /\ tunnels = <<>>
  /\ pools = <<>>
  /\ conns = <<>>
  /\ callers = [c \in Callers |-> IdleCaller]
  /\ disconnects = [d \in Disconnects |-> IdleDisconnect]
  /\ checkouts = <<>>
  /\ queries = [q \in Queries |-> IdleQuery]
  /\ lastQuery = Undefined
  /\ lastTransaction = Undefined
  /\ transationStarted = FALSE
  /\ resultsByMatch = Undefined
  /\ returned = Undefined
  /\ history = NoHistory
  /\ status = "disconnected"

InitState ==
  /\ InitInstance
  /\ formatting = IdleFormat

\* the instance init() returns with lazyConnect on (the default) or in test mode
Init ==
  /\ testMode \in BOOLEAN
  /\ lazyConnect = TRUE
  /\ production = FALSE
  /\ sshHost \in BOOLEAN
  /\ maxExecutionTime = DefaultMaxExecutionTime
  /\ resultedPool = IF testMode THEN "testPool" ELSE "lazyPool"
  /\ InitState

InitHook ==
  /\ testMode = FALSE
  /\ lazyConnect = TRUE
  /\ production = FALSE
  /\ resultedPool = "lazyPool"
  /\ sshHost \in BOOLEAN
  /\ maxExecutionTime \in {0, DefaultMaxExecutionTime}
  /\ InitState

\* ---- connect() ------------------------------------------------------------

\* slip: the guard is missing, every connect() starts an attempt
HasCachedPromise_never == FALSE

\* slip: only an attempt still in flight is shared, a settled one is not
HasCachedPromise_pendingOnly ==
  connectionPromise # Null /\ promises[connectionPromise].status = "pending"

\* if (connectionPromise) { return connectionPromise; }
HasCachedPromise == connectionPromise # Null

\* slip: poolConfig is not pointed at the tunnel, the pool dials the remote host
TunnelEndpoint_remote(t) == Null

\* poolConfig.host/port = server.address(): the local endpoint of tunnel t
TunnelEndpoint(t) == t

\* a pool as mysql.createPool returns it, with the probe already issued on it;
\* endSettled: a pool.end() on it has settled; closed: a pool.end() on it has
\* resolved; dispatched: the caller statements handed to it or to its connections
NewPool(host) == [host |-> host, endCalled |-> FALSE, endSettled |-> FALSE,
                  closed |-> FALSE, probes |-> 1, probeOk |-> FALSE, dispatched |-> 0]

NewPromise(pc, corePool) == [pc |-> pc, status |-> "pending", value |-> Null,
                             error |-> NoError, failure |-> NoError,
                             corePool |-> corePool, tunnel |-> Null]

RECURSIVE ProbesOn(_)
\* the 'SELECT 1;' statements issued on the pools 1..n
ProbesOn(n) == IF n = 0 THEN 0 ELSE pools[n].probes + ProbesOn(n - 1)

\* the promise a connect() call made now returns (outside test mode)
ReturnedPromise == IF HasCachedPromise THEN connectionPromise ELSE Len(promises) + 1

\* the calls the host has made so far
NumCalls == Cardinality({c \in Callers : callers[c].pc # "idle"})
            + Cardinality({d \in Disconnects : disconnects[d].pc # "idle"})

\* call chains are interchangeable: the next one to start is the lowest idle one
NextCaller(c) ==
  /\ NumCalls < MaxCalls
  /\ callers[c].pc = "idle"
  /\ IF c = 1 THEN TRUE ELSE callers[c - 1].pc # "idle"

NextDisconnect(d) ==
  /\ NumCalls < MaxCalls
  /\ disconnects[d].pc = "idle"
  /\ IF d = 1 THEN TRUE ELSE disconnects[d - 1].pc # "idle"

\* connect() outside test mode, up to the first await of its async body
connect ==
  IF HasCachedPromise
  THEN UNCHANGED <<connectionPromise, promises, pools, pool>>
  ELSE /\ connectionPromise' = Len(promises) + 1
       /\ IF sshHost
          THEN /\ promises' = Append(promises, NewPromise("tunnel", Null))
               /\ UNCHANGED <<pools, pool>>
          ELSE /\ pools' = Append(pools, NewPool(poolConfigHost))
               /\ pool' = Len(pools) + 1
               /\ promises' = Append(promises, NewPromise("probe", Len(pools) + 1))

\* the manager reports connected: the cached attempt resolved and its pool lives
Connected ==
  /\ connectionPromise # Null
  /\ promises[connectionPromise].status = "resolved"
  /\ pool # Null
  /\ ~pools[pool].endSettled

\* a caller's `await connect()` whose promise has settled: a queued microtask
Continuing(c) ==
  /\ callers[c].pc \in {"await", "await2"}
  /\ promises[callers[c].att].status # "pending"

\* the event loop takes the next driver event only once the microtasks have run
MicrotasksDrained == \A c \in Callers : ~Continuing(c)

\* ---- callers ----------------------------------------------------------------

\* the call chain of c ends: what the host's promise settles with
Settle(c, outcome, value, error) ==
  [callers EXCEPT ![c].pc = "done", ![c].outcome = outcome,
                  ![c].value = value, ![c].error = error,
                  ![c].provider = Null, ![c].viaConn = FALSE]

\* slip: test mode is not consulted, connect() starts a connection attempt
testConnect_connects(c) ==
  /\ testMode
  /\ NextCaller(c)
  /\ connect
  /\ callers' = [callers EXCEPT ![c].kind = "connect", ![c].pc = "await",
                                ![c].att = ReturnedPromise]
  /\ UNCHANGED <<config, status, formatting, other, tunnelServer, poolConfigHost, realPool, tunnels, conns, disconnects>>

\* connect() in test mode: return Promise.resolve({ pool: null })
testConnect(c) ==
  /\ testMode
  /\ NextCaller(c)
  /\ callers' = [Settle(c, "resolved", Null, NoError) EXCEPT ![c].kind = "connect"]
  /\ UNCHANGED <<config, status, formatting, other, closure, realPool, promises, tunnels, pools, conns, disconnects>>

\* the host calls connect() on the instance
callConnect(c) ==
  /\ ~testMode
  /\ NextCaller(c)
  /\ connect
  /\ callers' = [callers EXCEPT ![c].kind = "connect", ![c].pc = "await",
                                ![c].att = ReturnedPromise]
  /\ UNCHANGED <<config, status, formatting, other, tunnelServer, poolConfigHost, realPool, tunnels, conns, disconnects>>

\* the host calls query() on the lazy pool proxy: the async wrapper while
\* realPool is null, Reflect.get(realPool, 'query') = executeQuery afterwards
lazyQuery(c) ==
  /\ ~testMode
  /\ NextCaller(c)
  /\ connect
  /\ callers' = [callers EXCEPT ![c].kind = "query",
                                ![c].pc = IF realPool = Null THEN "await" ELSE "await2",
                                ![c].provider = realPool,
                                ![c].att = ReturnedPromise]
  /\ UNCHANGED <<config, status, formatting, other, tunnelServer, poolConfigHost, realPool, tunnels, conns, disconnects>>

\* the host calls getConnection() on the lazy pool proxy and then query() on the
\* connection: the async wrapper while realPool is null, poolWrapper's
\* getConnection = target.getConnection() afterwards (no connect() on that path)
lazyGetConnection(c) ==
  /\ ~testMode
  /\ NextCaller(c)
  /\ IF realPool = Null
     THEN /\ connect
          /\ callers' = [callers EXCEPT ![c].kind = "getConnection", ![c].pc = "await",
                                        ![c].att = ReturnedPromise]
     ELSE /\ callers' = [callers EXCEPT ![c].kind = "getConnection", ![c].pc = "checkout",
                                        ![c].provider = realPool]
          /\ UNCHANGED <<connectionPromise, promises, pools, pool>>
  /\ UNCHANGED <<config, status, formatting, other, tunnelServer, poolConfigHost, realPool, tunnels, conns, disconnects>>

\* the host calls beginTransaction() on the lazy pool proxy and then query() on
\* the transaction: the async wrapper while realPool is null, afterwards
\* poolWrapper's beginTransaction = await pool.getConnection(queryConfig) on the
\* closure's pool (a TypeError when that is null)
lazyBeginTransaction(c) ==
  /\ ~testMode
  /\ NextCaller(c)
  /\ IF realPool = Null
     THEN /\ connect
          /\ callers' = [callers EXCEPT ![c].kind = "beginTransaction", ![c].pc = "await",
                                        ![c].att = ReturnedPromise]
     ELSE /\ callers' = IF pool = Null
                        THEN [Settle(c, "rejected", Null, <<"TypeError">>)
                                EXCEPT ![c].kind = "beginTransaction"]
                        ELSE [callers EXCEPT ![c].kind = "beginTransaction",
                                             ![c].pc = "checkout", ![c].provider = pool]
          /\ UNCHANGED <<connectionPromise, promises, pools, pool>>
  /\ UNCHANGED <<config, status, formatting, other, tunnelServer, poolConfigHost, realPool, tunnels, conns, disconnects>>

\* the continuation of `await connect()` in the caller / in the lazy wrapper
awaitConnect(c) ==
  /\ callers[c].pc = "await"
  /\ LET p == promises[callers[c].att] IN
     /\ p.status # "pending"
     /\ IF p.status = "rejected"
        THEN /\ callers' = Settle(c, "rejected", Null, p.error)
             /\ UNCHANGED <<connectionPromise, promises, pools, pool, realPool>>
        ELSE IF callers[c].kind = "connect"
        THEN /\ callers' = Settle(c, "resolved", p.value, NoError)
             /\ UNCHANGED <<connectionPromise, promises, pools, pool, realPool>>
        ELSE /\ realPool' = p.value
             /\ IF p.value = Null
                THEN \* realPool[prop] on null throws a TypeError
                     /\ callers' = Settle(c, "rejected", Null, <<"TypeError">>)
                     /\ UNCHANGED <<connectionPromise, promises, pools, pool>>
                ELSE IF callers[c].kind = "beginTransaction"
                THEN \* realPool.beginTransaction(...) = beginTransaction.call(target):
                     \* await pool.getConnection(queryConfig) on the closure's pool
                     /\ callers' = IF pool = Null
                                   THEN Settle(c, "rejected", Null, <<"TypeError">>)
                                   ELSE [callers EXCEPT ![c].pc = "checkout",
                                                        ![c].provider = pool]
                     /\ UNCHANGED <<connectionPromise, promises, pools, pool>>
                ELSE IF callers[c].kind = "getConnection"
                THEN \* realPool.getConnection(...) = await target.getConnection()
                     /\ callers' = [callers EXCEPT ![c].pc = "checkout",
                                                   ![c].provider = p.value]
                     /\ UNCHANGED <<connectionPromise, promises, pools, pool>>
                ELSE \* realPool.query(...) = executeQuery.call(corePool, ...): await connect()
                                        /\ connect
                     /\ callers' = [callers EXCEPT ![c].pc = "await2",
                                                   ![c].provider = p.value,
                                                   ![c].att = ReturnedPromise]
  /\ UNCHANGED <<config, status, formatting, other, tunnelServer, poolConfigHost, tunnels, conns, disconnects>>

\* target.getConnection() resolves (for a transaction connection.beginTransaction()
\* resolves too); the host calls query() on the wrapped connection:
\* executeQuery.call(connection, ...): await connect()
getConnectionResolves(c) ==
  /\ callers[c].pc = "checkout"
  /\ MicrotasksDrained
  /\ connect
  /\ callers' = [callers EXCEPT ![c].pc = "await2", ![c].viaConn = TRUE,
                                ![c].att = ReturnedPromise]
  /\ UNCHANGED <<config, status, formatting, other, tunnelServer, poolConfigHost, realPool, tunnels, conns, disconnects>>

\* target.getConnection() rejects (no connection to be had)
getConnectionRejects(c) ==
  /\ callers[c].pc = "checkout"
  /\ MicrotasksDrained
  /\ callers' = Settle(c, "rejected", Null, <<"getConnection", c>>)
  /\ UNCHANGED <<config, status, formatting, other, closure, realPool, promises, tunnels, pools, conns, disconnects>>

\* executeQuery after its `await connect()`: queryProvider.query.apply(queryProvider, args)
executeQuery(c) ==
  /\ callers[c].pc = "await2"
  /\ LET p == promises[callers[c].att] IN
     /\ p.status # "pending"
     /\ IF p.status = "rejected"
        THEN /\ callers' = Settle(c, "rejected", Null, p.error)
             /\ UNCHANGED pools
        ELSE /\ pools' = [pools EXCEPT ![callers[c].provider].dispatched = @ + 1]
             /\ callers' = Settle(c, "resolved", callers[c].provider, NoError)
  /\ UNCHANGED <<config, status, formatting, other, closure, realPool, promises, tunnels, conns, disconnects>>

\* ---- the async body of connect() ---------------------------------------------

\* const { server } = await establishTunnel(); poolConfig.host/port = server.address();
\* tunnelServer = server; createPool; pool = poolWrapper(corePool); corePool.query('SELECT 1;')
establishTunnelResolves(a) ==
  /\ promises[a].pc = "tunnel"
  /\ MicrotasksDrained
  /\ LET t == Len(tunnels) + 1
         p == Len(pools) + 1 IN
     /\ tunnels' = Append(tunnels, [closed |-> FALSE])
     /\ poolConfigHost' = TunnelEndpoint(t)
     /\ tunnelServer' = t
     /\ pools' = Append(pools, NewPool(poolConfigHost'))
     /\ pool' = p
     /\ promises' = [promises EXCEPT ![a].pc = "probe", ![a].corePool = p, ![a].tunnel = t]
  /\ UNCHANGED <<config, status, formatting, other, connectionPromise, realPool, conns, callers, disconnects>>

\* slip: the catch block does not call reject, the attempt stays pending
Reject_unsettled(a, error) ==
  [promises EXCEPT ![a].pc = "done", ![a].failure = error]

\* slip: the failure is swallowed and the attempt resolves with the pool
Reject_swallowed(a, error) ==
  [promises EXCEPT ![a].pc = "done", ![a].status = "resolved",
                   ![a].value = pool, ![a].failure = error]

\* catch (error) { reject(error); }: failure keeps what went wrong in the attempt
Reject(a, error) ==
  [promises EXCEPT ![a].pc = "done", ![a].status = "rejected",
                   ![a].error = error, ![a].failure = error]

\* readFile or createTunnel rejects: catch (error) { reject(error); }
establishTunnelRejects(a) ==
  /\ promises[a].pc = "tunnel"
  /\ MicrotasksDrained
  /\ promises' = Reject(a, <<"tunnel", a>>)
  /\ UNCHANGED <<config, status, formatting, other, closure, realPool, tunnels, pools, conns, callers, disconnects>>

\* 'SELECT 1;' succeeds: resolve({ pool }) with the closure's pool as it is now
probeResolves(a) ==
  /\ promises[a].pc = "probe"
  /\ MicrotasksDrained
  /\ ~pools[promises[a].corePool].closed
  /\ pools' = [pools EXCEPT ![promises[a].corePool].probeOk = TRUE]
  /\ promises' = [promises EXCEPT ![a].pc = "done", ![a].status = "resolved",
                                  ![a].value = pool]
  /\ UNCHANGED <<config, status, formatting, other, closure, realPool, tunnels, conns, callers, disconnects>>

\* 'SELECT 1;' fails: throw result.error; catch (error) { reject(error); }
probeRejects(a) ==
  /\ promises[a].pc = "probe"
  /\ MicrotasksDrained
  /\ promises' = Reject(a, <<"probe", a>>)
  /\ UNCHANGED <<config, status, formatting, other, closure, realPool, tunnels, pools, conns, callers, disconnects>>

\* ---- disconnect() -----------------------------------------------------------

\* if (tunnelServer) { tunnelServer.close(); tunnelServer = null; }
closeTunnel ==
  /\ tunnels' = IF tunnelServer # Null
                THEN [tunnels EXCEPT ![tunnelServer].closed = TRUE]
                ELSE tunnels
  /\ tunnelServer' = Null

\* disconnect() up to `await pool.end()`, or to its end when pool is null
disconnect(d) ==
  /\ NextDisconnect(d)
  /\ IF pool # Null
     THEN /\ disconnects' = [disconnects EXCEPT ![d] = [pc |-> "ending", target |-> pool]]
          /\ pools' = [pools EXCEPT ![pool].endCalled = TRUE]
          /\ UNCHANGED <<tunnels, tunnelServer>>
     ELSE /\ disconnects' = [disconnects EXCEPT ![d] = [pc |-> "done", target |-> Null]]
          /\ closeTunnel
          /\ UNCHANGED pools
  /\ UNCHANGED <<config, status, formatting, other, connectionPromise, pool, poolConfigHost, realPool, promises,
                 conns, callers>>

\* pool.end() settles (resolved, or rejected and caught): pool = null;
\* connectionPromise = null; then the tunnel is closed
poolEndSettles(d, resolved) ==
  /\ disconnects[d].pc = "ending"
  /\ MicrotasksDrained
  /\ pools' = [pools EXCEPT ![disconnects[d].target].endSettled = TRUE,
                            ![disconnects[d].target].closed = @ \/ resolved]
  /\ pool' = Null
  /\ connectionPromise' = Null
  /\ closeTunnel
  /\ disconnects' = [disconnects EXCEPT ![d] = [pc |-> "done", target |-> Null]]
  /\ UNCHANGED <<config, status, formatting, other, poolConfigHost, realPool, promises, conns, callers>>

\* ---- pool.on('connection') ----------------------------------------------------

\* (error) => { if (error) { throw error; } }
timezoneCallbackThrows(error) == error

\* (error) => ({ error })
maxExecutionTimeCallbackThrows(error) == FALSE

\* the driver opens a physical connection of pool p: the hook sends SET time_zone
\* and, if (connectionConfig.maxExecutionTime), SET SESSION max_execution_time
onConnection(p) ==
  /\ p \in 1..Len(pools)
  /\ ~pools[p].closed
  /\ MicrotasksDrained
  /\ Len(conns) < MaxConns
  /\ conns' = Append(conns, [pool |-> p, tz |-> "sent",
                             met |-> IF maxExecutionTime # 0 THEN "sent" ELSE "none",
                             raised |-> {}])
  /\ UNCHANGED <<config, status, formatting, other, closure, realPool, promises, tunnels, pools, callers, disconnects>>

timezoneSettles(k, error) ==
  /\ conns[k].tz = "sent"
  /\ MicrotasksDrained
  /\ conns' = [conns EXCEPT ![k].tz = IF error THEN "failed" ELSE "ok",
                            ![k].raised = IF timezoneCallbackThrows(error)
                                          THEN @ \cup {"time_zone"} ELSE @]
  /\ UNCHANGED <<config, status, formatting, other, closure, realPool, promises, tunnels, pools, callers, disconnects>>

maxExecutionTimeSettles(k, error) ==
  /\ conns[k].met = "sent"
  /\ MicrotasksDrained
  /\ conns' = [conns EXCEPT ![k].met = IF error THEN "failed" ELSE "ok",
                            ![k].raised = IF maxExecutionTimeCallbackThrows(error)
                                          THEN @ \cup {"max_execution_time"} ELSE @]
  /\ UNCHANGED <<config, status, formatting, other, closure, realPool, promises, tunnels, pools, callers, disconnects>>

\* ---- specification --------------------------------------------------------------

Next ==
  \/ \E c \in Callers : testConnect(c)
  \/ \E c \in Callers : callConnect(c)
  \/ \E c \in Callers : lazyQuery(c)
  \/ \E c \in Callers : lazyGetConnection(c)
  \/ \E c \in Callers : awaitConnect(c)
  \/ \E c \in Callers : getConnectionResolves(c)
  \/ \E c \in Callers : getConnectionRejects(c)
  \/ \E c \in Callers : executeQuery(c)
  \/ \E a \in 1..Len(promises) : establishTunnelResolves(a)
  \/ \E a \in 1..Len(promises) : establishTunnelRejects(a)
  \/ \E a \in 1..Len(promises) : probeResolves(a)
  \/ \E a \in 1..Len(promises) : probeRejects(a)
  \/ \E d \in Disconnects : disconnect(d)
  \/ \E d \in Disconnects, resolved \in BOOLEAN : poolEndSettles(d, resolved)

Spec == Init /\ [][Next]_vars

NextHook ==
  \/ callConnect(1)
  \/ awaitConnect(1)
  \/ \E a \in 1..Len(promises) : establishTunnelResolves(a)
  \/ \E a \in 1..Len(promises) : probeResolves(a)
  \/ disconnect(1)
  \/ \E resolved \in BOOLEAN : poolEndSettles(1, resolved)
  \/ \E p \in 1..Len(pools) : onConnection(p)
  \/ \E k \in 1..Len(conns), error \in BOOLEAN : timezoneSettles(k, error)
  \/ \E k \in 1..Len(conns), error \in BOOLEAN : maxExecutionTimeSettles(k, error)

SpecHook == InitHook /\ [][NextHook]_vars

\* the lifecycle of a real, tunnelled instance with beginTransaction() on the
\* lazy proxy as well; the host makes one call fewer than in Spec and
\* disconnects once at most
InitLive == Init /\ ~testMode /\ sshHost

hostCalls ==
  /\ NumCalls < MaxCalls - 1
  /\ \/ \E c \in Callers : callConnect(c)
     \/ \E c \in Callers : lazyQuery(c)
     \/ \E c \in Callers : lazyGetConnection(c)
     \/ \E c \in Callers : lazyBeginTransaction(c)
     \/ disconnect(1)

NextLive ==
  \/ hostCalls
  \/ \E c \in Callers : awaitConnect(c)
  \/ \E c \in Callers : getConnectionResolves(c)
  \/ \E c \in Callers : getConnectionRejects(c)
  \/ \E c \in Callers : executeQuery(c)
  \/ \E a \in 1..Len(promises) : establishTunnelResolves(a)
  \/ \E a \in 1..Len(promises) : establishTunnelRejects(a)
  \/ \E a \in 1..Len(promises) : probeResolves(a)
  \/ \E a \in 1..Len(promises) : probeRejects(a)
  \/ \E resolved \in BOOLEAN : poolEndSettles(1, resolved)

\* what the event loop and the driver are bound to do: a continuation whose
\* promise has settled runs; tunnel establishment, the probe and
\* target.getConnection() settle.  Nothing obliges the host to make a call, nor
\* pool.end() to settle.
Fairness ==
  /\ WF_vars(\E c \in Callers : awaitConnect(c))
  /\ WF_vars(\E c \in Callers : executeQuery(c))
  /\ WF_vars(\E c \in Callers : getConnectionResolves(c) \/ getConnectionRejects(c))
  /\ WF_vars(\E a \in 1..Len(promises) :
               establishTunnelResolves(a) \/ establishTunnelRejects(a))
  /\ WF_vars(\E a \in 1..Len(promises) : probeResolves(a) \/ probeRejects(a))

SpecLive == InitLive /\ [][NextLive]_vars /\ Fairness

\* ---- the status-based manager (src/unnamed/part_000) -------------------------
\* init() returns { connect, query, disconnect }; the closure holds pool,
\* tunnelServer and status.  A caller's pc is the await its call is suspended at;
\* the pool a call creates carries the call's number.

\* what the status-based manager never assigns
unmanaged == <<config, formatting, other, connectionPromise, realPool, promises, tunnels,
               pools, conns>>

\* throw `connect() bailed due to "${status}" status...`
Bailed(s) == <<"connect() bailed", s>>

InitManager ==
  /\ testMode = FALSE
  /\ lazyConnect \in BOOLEAN
  /\ production = FALSE
  /\ sshHost \in BOOLEAN
  /\ maxExecutionTime = DefaultMaxExecutionTime
  /\ resultedPool = Null
  /\ InitState

\* connect() up to its first await, run for call c of the given kind
managerConnectBody(c, kind) ==
  IF status # "disconnected"
  THEN /\ callers' = [Settle(c, "rejected", Null, Bailed(status)) EXCEPT ![c].kind = kind]
       /\ UNCHANGED <<status, pool>>
  ELSE /\ status' = "connecting"
       /\ IF sshHost
          THEN /\ callers' = [callers EXCEPT ![c].kind = kind, ![c].pc = "tunnel"]
               /\ UNCHANGED pool
          ELSE /\ callers' = [callers EXCEPT ![c].kind = kind, ![c].pc = "probe"]
               /\ pool' = c

\* pool.query.apply(pool, args): on a null pool the property read throws
managerRun(cs, c) ==
  IF pool = Null
  THEN [cs EXCEPT ![c].pc = "done", ![c].outcome = "rejected", ![c].error = <<"TypeError">>]
  ELSE [cs EXCEPT ![c].pc = "running", ![c].provider = pool]

\* the host calls connect()
managerConnect(c) ==
  /\ NextCaller(c)
  /\ managerConnectBody(c, "connect")
  /\ UNCHANGED <<unmanaged, tunnelServer, poolConfigHost, disconnects>>

\* the host calls query(): if (lazyConnect && status !== 'connected') await connect()
managerQuery(c) ==
  /\ NextCaller(c)
  /\ IF lazyConnect /\ status # "connected"
     THEN managerConnectBody(c, "query")
     ELSE /\ callers' = managerRun([callers EXCEPT ![c].kind = "query"], c)
          /\ UNCHANGED <<status, pool>>
  /\ UNCHANGED <<unmanaged, tunnelServer, poolConfigHost, disconnects>>

\* await establishTunnel(sshConfig) resolves: the pool is created and probed
managerTunnelResolves(c) ==
  /\ callers[c].pc = "tunnel"
  /\ poolConfigHost' = c
  /\ tunnelServer' = c
  /\ pool' = c
  /\ callers' = [callers EXCEPT ![c].pc = "probe"]
  /\ UNCHANGED <<unmanaged, status, disconnects>>

\* await establishTunnel(sshConfig) rejects: connect() throws out of the await
managerTunnelRejects(c) ==
  /\ callers[c].pc = "tunnel"
  /\ callers' = Settle(c, "rejected", Null, <<"tunnel", c>>)
  /\ UNCHANGED <<unmanaged, status, pool, tunnelServer, poolConfigHost, disconnects>>

\* pool.query('SELECT 1;') resolves: status = 'connected', query() goes on
managerProbeResolves(c) ==
  /\ callers[c].pc = "probe"
  /\ status' = "connected"
  /\ callers' = IF callers[c].kind = "connect"
                THEN Settle(c, "resolved", Null, NoError)
                ELSE managerRun(callers, c)
  /\ UNCHANGED <<unmanaged, pool, tunnelServer, poolConfigHost, disconnects>>

\* pool.query('SELECT 1;') rejects: status = 'disconnected'; throw (result.error)
managerProbeRejects(c) ==
  /\ callers[c].pc = "probe"
  /\ status' = "disconnected"
  /\ callers' = Settle(c, "rejected", Null, <<"probe", c>>)
  /\ UNCHANGED <<unmanaged, pool, tunnelServer, poolConfigHost, disconnects>>

\* the statement of query() settles (a failed one after its ROLLBACK)
managerQuerySettles(c, resolved) ==
  /\ callers[c].pc = "running"
  /\ callers' = IF resolved
                THEN Settle(c, "resolved", Null, NoError)
                ELSE Settle(c, "rejected", Null, <<"query", c>>)
  /\ UNCHANGED <<unmanaged, status, pool, tunnelServer, poolConfigHost, disconnects>>

\* the host calls disconnect()
managerDisconnect(d) ==
  /\ NextDisconnect(d)
  /\ IF pool # Null
     THEN /\ status' = "disconnecting"
          /\ disconnects' = [disconnects EXCEPT ![d].pc = "ending", ![d].target = pool]
          /\ UNCHANGED tunnelServer
     ELSE /\ tunnelServer' = Null
          /\ disconnects' = [disconnects EXCEPT ![d].pc = "done"]
          /\ UNCHANGED status
  /\ UNCHANGED <<unmanaged, pool, poolConfigHost, callers>>

\* await pool.end() settles either way: pool = null, status = 'disconnected',
\* the tunnel server is closed
managerEndSettles(d) ==
  /\ disconnects[d].pc = "ending"
  /\ pool' = Null
  /\ status' = "disconnected"
  /\ tunnelServer' = Null
  /\ disconnects' = [disconnects EXCEPT ![d].pc = "done"]
  /\ UNCHANGED <<unmanaged, poolConfigHost, callers>>

NextManager ==
  \/ \E c \in Callers : managerConnect(c)
  \/ \E c \in Callers : managerQuery(c)
  \/ \E c \in Callers : managerTunnelResolves(c)
  \/ \E c \in Callers : managerTunnelRejects(c)
  \/ \E c \in Callers : managerProbeResolves(c)
  \/ \E c \in Callers : managerProbeRejects(c)
  \/ \E c \in Callers, resolved \in BOOLEAN : managerQuerySettles(c, resolved)
  \/ \E d \in Disconnects : managerDisconnect(d)
  \/ \E d \in Disconnects : managerEndSettles(d)

SpecManager == InitManager /\ [][NextManager]_vars

\* ---- escape, escapeId, format ---------------------------------------------------------

\* the host calls escape(), escapeId() or format() on the instance:
\* resultedPool[prop](...args).  The test proxy answers with mysql[prop] while
\* pool is null and with Reflect.get({}, prop) = undefined otherwise; the lazy
\* proxy answers with mysql[prop] while realPool and pool are null, falls through
\* to Reflect.get(realPool, prop) otherwise, which throws a TypeError on a null
\* realPool and is the driver pool's own method on a pool.
passthrough(c) ==
  /\ NextCaller(c)
  /\ LET throws == IF testMode THEN pool # Null
                   ELSE realPool = Null /\ pool # Null IN
     callers' = IF throws
                THEN [Settle(c, "rejected", Null, <<"TypeError">>) EXCEPT ![c].kind = "escape"]
                ELSE [Settle(c, "resolved", Null, NoError) EXCEPT ![c].kind = "escape"]
  /\ UNCHANGED <<config, status, formatting, other, closure, realPool, promises, tunnels, pools, conns, disconnects>>

NextPassthrough ==
  \/ Next
  \/ \E c \in Callers : passthrough(c)

SpecPassthrough == Init /\ [][NextPassthrough]_vars

\* ---- init(): the instance is built ------------------------------------------------

InitConstruction ==
  /\ testMode \in BOOLEAN
  /\ lazyConnect \in BOOLEAN
  /\ production = FALSE
  /\ sshHost \in BOOLEAN
  /\ maxExecutionTime = DefaultMaxExecutionTime
  /\ resultedPool = "unset"
  /\ InitState

\* slip: lazyConnect is not consulted, the instance connects while it is built
UsesLazyPoolProxy_never == FALSE

\* else if (connectionConfig.lazyConnect === true)
UsesLazyPoolProxy == lazyConnect = TRUE

\* init() has returned the instance to the host
Constructed == resultedPool \in {"testPool", "lazyPool", "pool"}

\* init() from `let resultedPool` to its return, or to `await connect()`
init ==
  /\ resultedPool = "unset"
  /\ IF testMode
     THEN /\ resultedPool' = "testPool"
          /\ UNCHANGED <<connectionPromise, promises, pools, pool>>
     ELSE IF UsesLazyPoolProxy
     THEN /\ resultedPool' = "lazyPool"
          /\ UNCHANGED <<connectionPromise, promises, pools, pool>>
     ELSE /\ connect
          /\ resultedPool' = "awaiting"
  /\ UNCHANGED <<config, status, formatting, testDouble, execution, tunnelServer, poolConfigHost, realPool, tunnels, conns,
                 callers, disconnects>>

\* resultedPool = (await connect()).pool: init() returns the instance, or rejects
\* with the attempt's error and there is no instance
initAwaitConnect ==
  /\ resultedPool = "awaiting"
  /\ promises[connectionPromise].status # "pending"
  /\ resultedPool' = IF promises[connectionPromise].status = "resolved"
                     THEN "pool" ELSE "rejected"
  /\ UNCHANGED <<config, status, formatting, testDouble, execution, closure, realPool, promises, tunnels, pools, conns,
                 callers, disconnects>>

NextConstruction ==
  \/ init
  \/ initAwaitConnect
  \/ \E a \in 1..Len(promises) : establishTunnelResolves(a)
  \/ \E a \in 1..Len(promises) : establishTunnelRejects(a)
  \/ \E a \in 1..Len(promises) : probeResolves(a)
  \/ \E a \in 1..Len(promises) : probeRejects(a)
  \/ \E c \in Callers : resultedPool = "testPool" /\ testConnect(c)
  \/ \E c \in Callers : resultedPool \in {"lazyPool", "pool"} /\ callConnect(c)
  \/ \E c \in Callers : resultedPool = "lazyPool" /\ lazyQuery(c)
  \/ \E c \in Callers : resultedPool = "lazyPool" /\ lazyGetConnection(c)
  \/ \E c \in Callers : resultedPool = "lazyPool" /\ lazyBeginTransaction(c)
  \/ \E c \in Callers : awaitConnect(c)
  \/ \E c \in Callers : getConnectionResolves(c)
  \/ \E c \in Callers : getConnectionRejects(c)
  \/ \E c \in Callers : executeQuery(c)

SpecConstruction == InitConstruction /\ [][NextConstruction]_vars

\* ---- executeQuery() on a connected instance ------------------------------------------
\* The lifecycle up to readiness is Spec's.  Here the host calls a connected
\* instance, where every `await connect()` is met by the resolved cached
\* promise, so a call runs to its first driver statement in one step.

InitExecution ==
  /\ testMode = FALSE
  /\ lazyConnect = TRUE
  /\ production \in BOOLEAN
  /\ sshHost = FALSE
  /\ maxExecutionTime = DefaultMaxExecutionTime
  /\ resultedPool = "lazyPool"
  /\ InitState

\* an error object the driver rejects a statement with
DriverError(origin) == [origin |-> origin, message |-> "driver message",
                        rawMessage |-> "unset"]

\* a statement handed to the driver: provider.query(sql)
Statement(sql, on) == [sql |-> sql, on |-> on]

\* queryProvider.queryConfig: what connectionWrapper wrote on the connection
\* object; the core pool carries no such property
ProviderQueryConfig(this) ==
  IF this = PoolProvider THEN NoConfig ELSE checkouts[this].queryConfig

\* slip: the spread is the wrong way round, the provider's keys win
MergedQueryConfig_providerWins(providerConfig, queryConfig) ==
  [k \in DOMAIN providerConfig \cup DOMAIN queryConfig |->
     IF k \in DOMAIN providerConfig THEN providerConfig[k] ELSE queryConfig[k]]

\* { ...queryProvider.queryConfig, ...queryConfig }
MergedQueryConfig(providerConfig, queryConfig) ==
  [k \in DOMAIN providerConfig \cup DOMAIN queryConfig |->
     IF k \in DOMAIN queryConfig THEN queryConfig[k] ELSE providerConfig[k]]

\* mergedQueryConfig[key] === true
IsTrue(mergedQueryConfig, key) ==
  key \in DOMAIN mergedQueryConfig /\ mergedQueryConfig[key] = TRUE

\* slip: the rollback goes to the pool, as in the older manager
RollbackProvider_pool(q) == PoolProvider

\* await queryProvider.query('ROLLBACK;'): the provider the rollback is called on
RollbackProvider(q) == queries[q].this

\* the slot of the next query() call: the lowest one with no call in flight
FreeQuery(q) ==
  /\ queries[q].pc \in {"idle", "done"}
  /\ \A r \in 1..(q - 1) : queries[r].pc \notin {"idle", "done"}

\* executeQuery.call(this, queryConfig, ...args) up to
\* `await queryProvider.query.apply(queryProvider, args)`
StartQuery(q, this, queryConfig) ==
  [queries EXCEPT ![q] =
     [IdleQuery EXCEPT !.pc = "running", !.this = this, !.queryConfig = queryConfig,
                       !.mergedQueryConfig =
                          MergedQueryConfig(ProviderQueryConfig(this), queryConfig),
                       !.ran = <<Statement("query", this)>>]]

\* the host calls query(sql, values, queryConfig) on the instance: the lazy
\* proxy (realPool = connectedPool) and poolWrapper's executeQuery.call(target, ...)
poolQuery(q, queryConfig) ==
  /\ Connected
  /\ FreeQuery(q)
  /\ realPool' = pool
  /\ queries' = StartQuery(q, PoolProvider, queryConfig)
  /\ UNCHANGED <<config, status, formatting, lifecycle, testDouble, resultedPool, checkouts>>

\* slip: the property is written only when a queryConfig was passed
WrappedQueryConfig_keptIfNone(k, queryConfig) ==
  IF queryConfig = NoConfig /\ k \in 1..Len(checkouts)
  THEN checkouts[k].queryConfig ELSE queryConfig

\* wrapped.queryConfig = queryConfig (the proxy has no set trap: it lands on the
\* connection object k)
WrappedQueryConfig(k, queryConfig) == queryConfig

\* connectionWrapper(await target.getConnection(), queryConfig): the driver hands
\* out a connection object, a new one or one that was released; given: the
\* queryConfig this checkout was made with
Checkout(k, queryConfig, transaction) ==
  /\ Connected
  /\ k \in 1..MaxConns
  /\ IF k \in 1..Len(checkouts) THEN ~checkouts[k].inUse ELSE k = Len(checkouts) + 1
  /\ realPool' = pool
  /\ checkouts' = [i \in 1..(IF k > Len(checkouts) THEN k ELSE Len(checkouts)) |->
                     IF i = k THEN [queryConfig |-> WrappedQueryConfig(k, queryConfig),
                                    given |-> queryConfig, inUse |-> TRUE,
                                    transaction |-> transaction]
                     ELSE checkouts[i]]
  /\ UNCHANGED <<config, status, formatting, lifecycle, testDouble, resultedPool, queries>>

\* the host calls getConnection(queryConfig) on the instance
getConnection(k, queryConfig) == Checkout(k, queryConfig, FALSE)

\* the host calls beginTransaction(queryConfig) on the instance:
\* pool.getConnection(queryConfig), then connection.beginTransaction()
beginTransaction(k, queryConfig) == Checkout(k, queryConfig, TRUE)

\* the host calls query(sql, values, queryConfig) on the connection or transaction
\* object k: connectionWrapper's executeQuery.call(target, ...)
connectionQuery(q, k, queryConfig) ==
  /\ Connected
  /\ FreeQuery(q)
  /\ k \in 1..Len(checkouts)
  /\ checkouts[k].inUse
  /\ queries' = StartQuery(q, k, queryConfig)
  /\ UNCHANGED <<config, status, formatting, lifecycle, testDouble, realPool, resultedPool, checkouts>>

\* the host is done with connection k (after commit() or rollback() for a
\* transaction) and no call of its is pending on it: connection.release()
release(k) ==
  /\ k \in 1..Len(checkouts)
  /\ checkouts[k].inUse
  /\ \A q \in Queries : queries[q].pc \in {"running", "rollback"} => queries[q].this # k
  /\ checkouts' = [checkouts EXCEPT ![k].inUse = FALSE, ![k].transaction = FALSE]
  /\ UNCHANGED <<config, status, formatting, lifecycle, testDouble, realPool, resultedPool, queries>>

\* the caller's statement fails: .catch(error => ([{ error }])), then
\* `await queryProvider.query('ROLLBACK;')` is issued
queryRejects(q) ==
  /\ queries[q].pc = "running"
  /\ queries' = [queries EXCEPT ![q].pc = "rollback",
                                ![q].failure = DriverError("query"),
                                ![q].ran = Append(@, Statement("ROLLBACK;", RollbackProvider(q)))]
  /\ UNCHANGED <<config, status, formatting, lifecycle, testDouble, realPool, resultedPool, checkouts>>

\* if (process.env.NODE_ENV === 'production') { error.rawMessage = error.message;
\* error.message = 'SQL error'; }
Obfuscate(error) ==
  IF production
  THEN [error EXCEPT !.rawMessage = error.message, !.message = "SQL error"]
  ELSE error

\* 'ROLLBACK;' succeeds: the error is obfuscated in production and thrown
rollbackResolves(q) ==
  /\ queries[q].pc = "rollback"
  /\ queries' = [queries EXCEPT ![q].pc = "done", ![q].outcome = "rejected",
                                ![q].error = Obfuscate(queries[q].failure)]
  /\ UNCHANGED <<config, status, formatting, lifecycle, testDouble, realPool, resultedPool, checkouts>>

\* 'ROLLBACK;' fails: the await at db.js:214 has no catch, executeQuery rejects
\* with the rollback's error there and then
rollbackRejects(q) ==
  /\ queries[q].pc = "rollback"
  /\ queries' = [queries EXCEPT ![q].pc = "done", ![q].outcome = "rejected",
                                ![q].error = DriverError("rollback")]
  /\ UNCHANGED <<config, status, formatting, lifecycle, testDouble, realPool, resultedPool, checkouts>>

\* ---- strings, change-case ----------------------------------------------------------

\* Strings that the code takes apart are sequences of characters.  A query
\* template is a sequence of characters and of whole directives, each directive
\* being one element.

Lowercase == {"a", "b", "c", "d", "e", "i", "k", "l", "r", "s", "t", "u", "v"}
Uppercase == {"A", "B", "C", "I"}
Digits == {"7"}

\* \w
IsWord(ch) == ch \in Lowercase \cup Uppercase \cup Digits \cup {"_"}

\* \s
IsSpace(ch) == ch \in {" ", "\n"}

\* String.prototype.toLowerCase, a character at a time
toLowerCase(ch) ==
  CASE ch = "A" -> "a" [] ch = "B" -> "b" [] ch = "C" -> "c" [] ch = "I" -> "i"
    [] OTHER -> ch

\* String.prototype.toUpperCase, a character at a time
toUpperCase(ch) ==
  CASE ch = "a" -> "A" [] ch = "b" -> "B" [] ch = "c" -> "C" [] ch = "d" -> "D"
    [] ch = "e" -> "E" [] ch = "i" -> "I" [] ch = "k" -> "K" [] ch = "l" -> "L"
    [] ch = "r" -> "R" [] ch = "s" -> "S" [] ch = "t" -> "T" [] ch = "u" -> "U"
    [] ch = "v" -> "V" [] OTHER -> ch

\* a number, as its decimal digits; an object, as its own properties
Num(digits) == [type |-> "number", digits |-> digits]
Object(props) == [type |-> "object", props |-> props]

\* what `throw` leaves in place of a string
TypeError == "TypeError"
NotDefined == "not defined"
Thrown(text) == \E i \in 1..Len(text) : text[i] \in {TypeError, NotDefined}
ThrownError(text) == text[CHOOSE i \in 1..Len(text) : text[i] \in {TypeError, NotDefined}]

RECURSIVE split(_, _)
\* text.split(sep)
split(text, sep) ==
  IF \A i \in 1..Len(text) : text[i] # sep THEN <<text>>
  ELSE LET at == CHOOSE i \in 1..Len(text) :
                   text[i] = sep /\ \A j \in 1..(i - 1) : text[j] # sep IN
       <<SubSeq(text, 1, at - 1)>> \o split(SubSeq(text, at + 1, Len(text)), sep)

RECURSIVE join(_, _)
\* parts.join(sep)
join(parts, sep) ==
  IF Len(parts) = 0 THEN <<>>
  ELSE IF Len(parts) = 1 THEN parts[1]
  ELSE parts[1] \o sep \o join(Tail(parts), sep)

\* what change-case puts between the words it finds
NUL == "NUL"

RECURSIVE noCase(_, _)
\* change-case's noCase from character i on, before the words are transformed:
\* '$1\0$2' for /([a-z0-9])([A-Z])/g and /([A-Z])([A-Z][a-z])/g, '\0' for
\* /[^A-Z0-9]+/gi
noCase(s, i) ==
  IF i > Len(s) THEN <<>>
  ELSE (IF ~(IsWord(s[i]) /\ s[i] # "_") THEN <<NUL>>
        ELSE IF /\ s[i] \in Uppercase
                /\ i > 1
                /\ \/ s[i - 1] \in Lowercase \cup Digits
                   \/ s[i - 1] \in Uppercase /\ i < Len(s) /\ s[i + 1] \in Lowercase
        THEN <<NUL, s[i]>>
        ELSE <<s[i]>>) \o noCase(s, i + 1)

\* the words of s: leading and trailing \0 are trimmed, then split('\0'); a run
\* of \0 was one \0
Words(s) == SelectSeq(split(noCase(s, 1), NUL), LAMBDA word : word # <<>>)

\* word.toLowerCase()
lowerCase(word) == [i \in 1..Len(word) |-> toLowerCase(word[i])]

\* snakeCase of change-case: the words in lower case, joined by '_'
snakeCase(s) == join([i \in 1..Len(Words(s)) |-> lowerCase(Words(s)[i])], <<"_">>)

\* pascalCaseTransform of change-case: the first character in upper case, the
\* rest in lower case; '_' goes before a digit that begins a later word
pascalCaseTransform(word, index) ==
  IF index > 0 /\ Head(word) \in Digits
  THEN <<"_", Head(word)>> \o lowerCase(Tail(word))
  ELSE <<toUpperCase(Head(word))>> \o lowerCase(Tail(word))

\* camelCaseTransform of change-case
camelCaseTransform(word, index) ==
  IF index = 0 THEN lowerCase(word) ELSE pascalCaseTransform(word, index)

\* camelCase of change-case: the transformed words, joined by nothing
camelCase(key) ==
  join([i \in 1..Len(Words(key)) |-> camelCaseTransform(Words(key)[i], i - 1)], <<>>)

\* column names
col_user_id == <<"u", "s", "e", "r", "_", "i", "d">>
col_userId == <<"u", "s", "e", "r", "I", "d">>
col_id == <<"i", "d">>
col_Created_At == <<"C", "r", "e", "a", "t", "e", "d", "_", "A", "t">>

\* ---- results --------------------------------------------------------------------------

\* what the driver resolves a statement with, as executeQuery sees it: an array
\* (of rows, or of result sets for several statements), a row object with its
\* columns in insertion order, or a ResultSetHeader
Array(items) == [kind |-> "array", items |-> items]
Row(cols) == [kind |-> "row", cols |-> cols]
Col(key, value) == [key |-> key, value |-> value]
ResultSetHeader == [kind |-> "ResultSetHeader"]
Fields == [kind |-> "fields"]

HasKey(cols, key) == \E i \in 1..Len(cols) : cols[i].key = key

\* result[key]
GetKey(cols, key) == cols[CHOOSE i \in 1..Len(cols) : cols[i].key = key].value

\* result[key] = value: an own property keeps its place, a new one goes last
SetKey(cols, key, value) ==
  IF HasKey(cols, key)
  THEN [i \in 1..Len(cols) |-> IF cols[i].key = key THEN Col(key, value) ELSE cols[i]]
  ELSE Append(cols, Col(key, value))

\* delete result[key]
DeleteKey(cols, key) == SelectSeq(cols, LAMBDA c : c.key # key)

\* if (key !== camelCase(key))
NeedsConversion(key) == key # camelCase(key)

RECURSIVE ConvertKeys(_, _)
\* for (const key in result) { if (key !== camelCase(key)) { result[camelCase(key)] =
\* result[key]; delete result[key]; } } over the keys the row had when the loop began
ConvertKeys(cols, keys) ==
  IF keys = <<>> THEN cols
  ELSE LET key == Head(keys) IN
       IF ~HasKey(cols, key) \/ ~NeedsConversion(key)
       THEN ConvertKeys(cols, Tail(keys))
       ELSE ConvertKeys(DeleteKey(SetKey(cols, camelCase(key), GetKey(cols, key)), key),
                        Tail(keys))

RECURSIVE convertColumnNameCasing(_)
\* the results after convertColumnNameCasing(results) has changed them in place
convertColumnNameCasing(results) ==
  IF results.kind # "array" THEN results
  ELSE Array([i \in 1..Len(results.items) |->
                LET result == results.items[i] IN
                IF result.kind = "array" THEN convertColumnNameCasing(result)
                ELSE IF result.kind # "ResultSetHeader"
                THEN Row(ConvertKeys(result.cols,
                                     [j \in 1..Len(result.cols) |-> result.cols[j].key]))
                ELSE result])

\* slip: the casing is converted before nativeQuery is looked at
executeQueryReturns_convertsFirst(mergedQueryConfig, results, results_meta) ==
  IF IsTrue(mergedQueryConfig, "nativeQuery")
  THEN [shape |-> "tuple", results |-> convertColumnNameCasing(results), meta |-> results_meta]
  ELSE [shape |-> "results", results |-> convertColumnNameCasing(results)]

\* if (mergedQueryConfig.nativeQuery === true) { return [results, results_meta]; }
\* if (mergedQueryConfig.keepOriginalCasing !== true) { convertColumnNameCasing(results); }
\* return results;
executeQueryReturns(mergedQueryConfig, results, results_meta) ==
  IF IsTrue(mergedQueryConfig, "nativeQuery")
  THEN [shape |-> "tuple", results |-> results, meta |-> results_meta]
  ELSE IF ~IsTrue(mergedQueryConfig, "keepOriginalCasing")
  THEN [shape |-> "results", results |-> convertColumnNameCasing(results)]
  ELSE [shape |-> "results", results |-> results]

\* the results a driver statement may resolve with
DriverResults ==
  { Array(<<>>),
    Array(<<Row(<<Col(col_user_id, 1), Col(col_id, 2)>>), Row(<<Col(col_Created_At, 3)>>)>>),
    Array(<<Row(<<Col(col_user_id, 1), Col(col_userId, 2)>>)>>),
    ResultSetHeader,
    Array(<<Array(<<Row(<<Col(col_user_id, 1)>>)>>), ResultSetHeader>>) }

\* the caller's statement succeeds with [results, results_meta]; of a call that
\* returned, the record keeps the merged config, the driver's results and the value
queryResolves(q, results) ==
  /\ queries[q].pc = "running"
  /\ queries' = [queries EXCEPT ![q] =
       [IdleQuery EXCEPT !.pc = "done", !.outcome = "resolved",
                         !.mergedQueryConfig = queries[q].mergedQueryConfig,
                         !.driver = results,
                         !.value = executeQueryReturns(queries[q].mergedQueryConfig,
                                                       results, Fields)]]
  /\ UNCHANGED <<config, status, formatting, lifecycle, testDouble, realPool, resultedPool, checkouts>>

\* the one connect() that readies the instance, then calls without a queryConfig
NextExecution ==
  \/ callConnect(1)
  \/ awaitConnect(1)
  \/ \E a \in 1..Len(promises) : probeResolves(a)
  \/ \E q \in Queries : poolQuery(q, NoConfig)
  \/ \E k \in 1..MaxConns : getConnection(k, NoConfig)
  \/ \E k \in 1..MaxConns : beginTransaction(k, NoConfig)
  \/ \E q \in Queries, k \in 1..MaxConns : connectionQuery(q, k, NoConfig)
  \/ \E k \in 1..MaxConns : release(k)
  \/ \E q \in Queries : queryResolves(q, Array(<<>>))
  \/ \E q \in Queries : queryRejects(q)
  \/ \E q \in Queries : rollbackResolves(q)
  \/ \E q \in Queries : rollbackRejects(q)

SpecExecution == InitExecution /\ [][NextExecution]_vars

\* outside production: a call that succeeds never reads NODE_ENV
InitConfig == InitExecution /\ production = FALSE

\* the queryConfigs connections are checked out with
ProviderConfigs ==
  { NoConfig, [nativeQuery |-> TRUE], [keepOriginalCasing |-> TRUE],
    [nativeQuery |-> FALSE, keepOriginalCasing |-> FALSE] }

\* calls with any queryConfig on the pool and on checked-out connections, one at
\* a time
NextConfig ==
  \/ callConnect(1)
  \/ awaitConnect(1)
  \/ \E a \in 1..Len(promises) : probeResolves(a)
  \/ \E queryConfig \in Configs : poolQuery(1, queryConfig)
  \/ \E k \in 1..MaxConns, queryConfig \in ProviderConfigs : getConnection(k, queryConfig)
  \/ \E k \in 1..MaxConns, queryConfig \in ProviderConfigs : beginTransaction(k, queryConfig)
  \/ \E k \in 1..MaxConns, queryConfig \in Configs : connectionQuery(1, k, queryConfig)
  \/ \E k \in 1..MaxConns : release(k)
  \/ queryResolves(1, Array(<<>>))

SpecConfig == InitConfig /\ [][NextConfig]_vars

\* calls with any queryConfig on the pool, each resolved with any of the driver
\* results
NextResult ==
  \/ callConnect(1)
  \/ awaitConnect(1)
  \/ \E a \in 1..Len(promises) : probeResolves(a)
  \/ \E q \in Queries, queryConfig \in Configs : poolQuery(q, queryConfig)
  \/ \E q \in Queries, results \in DriverResults : queryResolves(q, results)

SpecResult == InitConfig /\ [][NextResult]_vars

\* the characters column names are made of
KeyChars == {"a", "B", "_", "7"}

RECURSIVE ColumnNames(_)
\* the column names of n characters or fewer
ColumnNames(n) ==
  IF n = 0 THEN {}
  ELSE ColumnNames(n - 1)
         \cup {<<ch>> : ch \in KeyChars}
         \cup {Append(name, ch) : name \in {name \in ColumnNames(n - 1) : Len(name) = n - 1},
                                  ch \in KeyChars}

\* result sets over all column names: rows of one column, rows of two (which
\* may convert to the same name), rows that hold a column under its name and
\* under the converted name, a result set nested beside a metadata row,
\* a metadata row alone, no rows
CasingResults ==
  {Array(<<Row(<<Col(name, 1)>>)>>) : name \in ColumnNames(MaxKey)}
    \cup {Array(<<Row(<<Col(names[1], 1), Col(names[2], 2)>>)>>) :
            names \in {names \in ColumnNames(MaxKey) \X ColumnNames(MaxKey - 2) :
                         names[1] # names[2]}}
    \cup {Array(<<Row(<<Col(name, 1), Col(camelCase(name), 2)>>)>>) :
            name \in {name \in ColumnNames(MaxKey) : NeedsConversion(name)}}
    \cup {Array(<<Array(<<Row(<<Col(name, 1)>>)>>), ResultSetHeader>>) :
            name \in ColumnNames(MaxKey - 1)}
    \cup {ResultSetHeader, Array(<<>>)}

\* calls without a queryConfig on the pool, resolved with any of those result sets
NextCasing ==
  \/ callConnect(1)
  \/ awaitConnect(1)
  \/ \E a \in 1..Len(promises) : probeResolves(a)
  \/ poolQuery(1, NoConfig)
  \/ queries[1].pc = "running" /\ \E results \in CasingResults : queryResolves(1, results)

SpecCasing == InitConfig /\ [][NextCasing]_vars

\* ---- the test double (createTestPoolProxy and the test-mode methods) ------------------

InitTest ==
  /\ testMode = TRUE
  /\ lazyConnect = TRUE
  /\ production = FALSE
  /\ sshHost = FALSE
  /\ maxExecutionTime = DefaultMaxExecutionTime
  /\ resultedPool = "testPool"
  /\ InitState

\* the (sql, values) the host queries with
TestQueries == {"select", "insert", "malformed"}

\* queryFormat.call(mysql, sql, values) throws (a template that does not compile)
QueryFormatThrows(query) == query = "malformed"

\* queryFormat.call(mysql, sql, values) on the queries used here: the bound SQL
BoundQuery(query) ==
  CASE query = "select" -> "SELECT * FROM users WHERE id = 1"
    [] query = "insert" -> "INSERT INTO logs (message) VALUES ('Test log')"

BoundQueries == {BoundQuery(query) : query \in {query \in TestQueries : ~QueryFormatThrows(query)}}

\* a RegExp without flags, as the set of strings it matches
Regex(matches) == [matches |-> matches]
RegexSelect == Regex({BoundQuery("select")})
RegexInsert == Regex({BoundQuery("insert")})
RegexAny == Regex(BoundQueries)

\* regex.test(string)
test(regex, string) == string \in regex.matches

Matcher(regex, result) == [regex |-> regex, result |-> result]

\* the lists the host passes to setResultsByMatch
MatcherLists ==
  { <<>>,
    <<Matcher(RegexSelect, "users"), Matcher(RegexAny, "any")>>,
    <<Matcher(RegexAny, "any"), Matcher(RegexSelect, "users")>>,
    <<Matcher(RegexInsert, "logs")>> }

\* String(value) as `+=` and a template literal make it
AsString(value) == IF value.type = "string" THEN value.text ELSE <<value.type>>

\* if (value)
Truthy(value) == value.type \in {"array"} \/ (value.type = "string" /\ value.text # <<>>)

\* the statements a transaction log holds after its first line
Logged(value) == Cardinality({i \in 1..Len(AsString(value)) : AsString(value)[i] = "\n"})

\* slip: the last matcher that matches is taken
find_last(items, string) ==
  LET hits == {i \in 1..Len(items) : test(items[i].regex, string)} IN
  IF hits = {} THEN Undefined
  ELSE [type |-> "object", value |-> items[CHOOSE i \in hits : \A j \in hits : j <= i]]

\* resultsByMatch.find(({ regex }) => regex.test(lastQuery))
find(items, string) ==
  LET hits == {i \in 1..Len(items) : test(items[i].regex, string)} IN
  IF hits = {} THEN Undefined
  ELSE [type |-> "object", value |-> items[CHOOSE i \in hits : \A j \in hits : i <= j]]

\* slip: a query nothing matches resolves with undefined
NoMatchResult_undefined == Undefined

\* return [];
NoMatchResult == List(<<>>)

\* if (resultsByMatch) { const matched = ...; if (matched) { return matched.result; } }
\* return [];
queryReturns(string) ==
  IF Truthy(resultsByMatch) /\ find(resultsByMatch.items, string).type = "object"
  THEN [type |-> "result", name |-> find(resultsByMatch.items, string).value.result]
  ELSE NoMatchResult

\* slip: the statement is logged without its terminator
LogLine_unterminated(value) == <<"\n">> \o AsString(value)

\* `\n${lastQuery};`
LogLine(value) == <<"\n">> \o AsString(value) \o <<";">>

\* value += text
PlusEquals(value, text) == Str(AsString(value) \o text)

\* the host calls query(sql, values) on the instance, or on the object that
\* getConnection() and beginTransaction() return, which is testPool itself
testQuery(query) ==
  /\ transationStarted => Logged(lastTransaction) < MaxLogged
  /\ IF QueryFormatThrows(query)
     THEN /\ returned' = [type |-> "rejected"]
          /\ UNCHANGED <<lastQuery, lastTransaction, history>>
     ELSE /\ lastQuery' = Str(<<BoundQuery(query)>>)
          /\ lastTransaction' = IF transationStarted
                                THEN PlusEquals(lastTransaction, LogLine(lastQuery'))
                                ELSE lastTransaction
          /\ returned' = queryReturns(BoundQuery(query))
          /\ history' = [history EXCEPT !.recent = Str(<<BoundQuery(query)>>),
                                        !.cleared = FALSE,
                                        !.txQueries = IF history.tx = "open"
                                                      THEN Append(@, BoundQuery(query))
                                                      ELSE @]
  /\ UNCHANGED <<config, status, formatting, lifecycle, realPool, resultedPool, execution, transationStarted,
                 resultsByMatch>>

\* beginTransaction(): transationStarted = true; lastTransaction = 'START TRANSACTION;'
testBeginTransaction ==
  /\ transationStarted' = TRUE
  /\ lastTransaction' = Str(<<"START TRANSACTION;">>)
  /\ history' = [history EXCEPT !.tx = "open", !.txQueries = <<>>]
  /\ UNCHANGED <<config, status, formatting, lifecycle, realPool, resultedPool, execution, lastQuery,
                 resultsByMatch, returned>>

\* slip: the terminal statement is logged and the buffer stays open
testEndTransaction_staysOpen(statement) ==
  /\ Logged(lastTransaction) < MaxLogged
  /\ lastTransaction' = PlusEquals(lastTransaction, <<"\n", statement>>)
  /\ history' = [history EXCEPT !.tx = IF @ = "open" THEN statement ELSE "disturbed"]
  /\ UNCHANGED <<config, status, formatting, lifecycle, realPool, resultedPool, execution, lastQuery,
                 transationStarted, resultsByMatch, returned>>

\* commit() / rollback() on testPool: transationStarted = false;
\* lastTransaction += '\nCOMMIT;' / '\nROLLBACK;'
testEndTransaction(statement) ==
  /\ Logged(lastTransaction) < MaxLogged
  /\ transationStarted' = FALSE
  /\ lastTransaction' = PlusEquals(lastTransaction, <<"\n", statement>>)
  /\ history' = [history EXCEPT !.tx = IF @ = "open" THEN statement ELSE "disturbed"]
  /\ UNCHANGED <<config, status, formatting, lifecycle, realPool, resultedPool, execution, lastQuery,
                 resultsByMatch, returned>>

testCommit == testEndTransaction("COMMIT;")

testRollback == testEndTransaction("ROLLBACK;")

\* getConnection() on testPool: return testPool
testGetConnection ==
  /\ returned' = [type |-> "testPool"]
  /\ UNCHANGED <<config, status, formatting, lifecycle, realPool, resultedPool, execution, lastQuery,
                 lastTransaction, transationStarted, resultsByMatch, history>>

\* release() on testPool: () => { /* do nothing */ }
testRelease ==
  /\ returned' = Undefined
  /\ UNCHANGED <<config, status, formatting, lifecycle, realPool, resultedPool, execution, lastQuery,
                 lastTransaction, transationStarted, resultsByMatch, history>>

\* setResultsByMatch(newResultsByMatch)
setResultsByMatch(newResultsByMatch) ==
  /\ resultsByMatch' = List(newResultsByMatch)
  /\ resultsByMatch' # resultsByMatch
  /\ UNCHANGED <<config, status, formatting, lifecycle, realPool, resultedPool, execution, lastQuery,
                 lastTransaction, transationStarted, returned, history>>

\* slip: clearLastQuery resets the transaction log as well
clearLastQuery_resetsLog ==
  /\ lastQuery' = NullValue
  /\ lastTransaction' = NullValue
  /\ transationStarted' = FALSE
  /\ history' = [history EXCEPT !.cleared = TRUE, !.tx = "disturbed"]
  /\ UNCHANGED <<config, status, formatting, lifecycle, realPool, resultedPool, execution, resultsByMatch,
                 returned>>

\* clearLastQuery: lastQuery = null
clearLastQuery ==
  /\ lastQuery' = NullValue
  /\ history' = [history EXCEPT !.cleared = TRUE]
  /\ UNCHANGED <<config, status, formatting, lifecycle, realPool, resultedPool, execution, lastTransaction,
                 transationStarted, resultsByMatch, returned>>

\* clearResultsByMatch: resultsByMatch = null
clearResultsByMatch ==
  /\ resultsByMatch' = NullValue
  /\ UNCHANGED <<config, status, formatting, lifecycle, realPool, resultedPool, execution, lastQuery,
                 lastTransaction, transationStarted, returned, history>>

\* clearLastTransaction: lastTransaction = null; transationStarted = false
clearLastTransaction ==
  /\ lastTransaction' = NullValue
  /\ transationStarted' = FALSE
  /\ history' = [history EXCEPT !.tx = "disturbed"]
  /\ UNCHANGED <<config, status, formatting, lifecycle, realPool, resultedPool, execution, lastQuery,
                 resultsByMatch, returned>>

\* clearAll: lastQuery = null; resultsByMatch = null; lastTransaction = null;
\* transationStarted = false
clearAll ==
  /\ lastQuery' = NullValue
  /\ resultsByMatch' = NullValue
  /\ lastTransaction' = NullValue
  /\ transationStarted' = FALSE
  /\ history' = [history EXCEPT !.cleared = TRUE, !.tx = "disturbed"]
  /\ UNCHANGED <<config, status, formatting, lifecycle, realPool, resultedPool, execution, returned>>

\* getLastQuery: () => lastQuery
getLastQuery == lastQuery

\* getLastTransaction: () => lastTransaction
getLastTransaction == lastTransaction

NextTest ==
  \/ \E query \in TestQueries : testQuery(query)
  \/ testBeginTransaction
  \/ testCommit
  \/ testRollback
  \/ \E newResultsByMatch \in MatcherLists : setResultsByMatch(newResultsByMatch)
  \/ clearLastQuery
  \/ clearResultsByMatch
  \/ clearLastTransaction
  \/ clearAll

SpecTest == InitTest /\ [][NextTest]_vars

\* test mode through the call surface of the real manager and executor:
\* connect() and disconnect() of the instance with the test double's calls
NextTestMode ==
  \/ \E c \in Callers : testConnect(c)
  \/ \E d \in Disconnects : disconnect(d)
  \/ \E query \in TestQueries : testQuery(query)
  \/ testGetConnection
  \/ testBeginTransaction
  \/ testCommit
  \/ testRollback
  \/ testRelease

SpecTestMode == InitTest /\ [][NextTestMode]_vars

\* ---- queryFormat (helpers.js) ---------------------------------------------------------

RECURSIVE escapeChars(_)
\* the characters SqlString.escape puts a backslash before
escapeChars(s) ==
  IF s = <<>> THEN <<>>
  ELSE (IF Head(s) \in {"'", "\"", "\\"} THEN <<"\\", Head(s)>>
        ELSE IF Head(s) = "\n" THEN <<"\\", "n">>
        ELSE <<Head(s)>>) \o escapeChars(Tail(s))

\* escape(value) of the driver: a number as it prints, a string quoted
escape(value) ==
  IF value.type = "number" THEN value.digits
  ELSE IF value.type = "string" THEN <<"'">> \o escapeChars(value.text) \o <<"'">>
  ELSE <<"N", "U", "L", "L">>

\* the backtick character
Backtick == "U+0060"

RECURSIVE escapeIdChars(_)
\* the backticks of an identifier are doubled, its dots are set between backticks
escapeIdChars(s) ==
  IF s = <<>> THEN <<>>
  ELSE (IF Head(s) = Backtick THEN <<Backtick, Backtick>>
        ELSE IF Head(s) = "." THEN <<Backtick, ".", Backtick>>
        ELSE <<Head(s)>>) \o escapeIdChars(Tail(s))

\* escapeId(id) of the driver
escapeId(id) == <<Backtick>> \o escapeIdChars(id) \o <<Backtick>>

\* values.hasOwnProperty(key)
hasOwnProperty(vals, key) == vals.type = "object" /\ key \in DOMAIN vals.props

\* slip: the path is converted and escaped as one identifier
Identifier_wholePath(value) ==
  IF value.type = "string" THEN escapeId(snakeCase(value.text)) ELSE <<TypeError>>

\* values[key]?.split('.')?.map(part => escapeId(snakeCase(part)))?.join('.'):
\* a number has no split
Identifier(value) ==
  IF value.type = "string"
  THEN LET parts == split(value.text, ".") IN
       join([i \in 1..Len(parts) |-> escapeId(snakeCase(parts[i]))], <<".">>)
  ELSE <<TypeError>>

\* slip: a marker without a value is dropped
Unbound_dropped(match) == <<>>

\* return match;
Unbound(match) == match

RECURSIVE WordRun(_, _)
\* (\w+) from i on: the place of its last character, i - 1 when there is none
WordRun(s, i) == IF i <= Len(s) /\ IsWord(s[i]) THEN WordRun(s, i + 1) ELSE i - 1

\* \B at i: the characters before and at i are both \w or both not
NotBoundary(s, i) == (i > 1 /\ IsWord(s[i - 1])) = (i <= Len(s) /\ IsWord(s[i]))

\* /\B::(\w+)/ (colons = 2) or /\B:(\w+)/ (colons = 1) matches at i
MatchesAt(s, i, colons) ==
  /\ NotBoundary(s, i)
  /\ i + colons <= Len(s)
  /\ \A c \in 0..(colons - 1) : s[i + c] = ":"
  /\ IsWord(s[i + colons])

RECURSIVE replace(_, _, _, _)
\* sql.replace(/\B::(\w+)/g, function (match, key) {...}) and the same for
\* /\B:(\w+)/g, from i on: what was put in is not looked at again by this call
replace(s, i, colons, vals) ==
  IF i > Len(s) THEN <<>>
  ELSE IF MatchesAt(s, i, colons)
  THEN LET last == WordRun(s, i + colons)
           key == SubSeq(s, i + colons, last)
           match == SubSeq(s, i, last) IN
       (IF ~hasOwnProperty(vals, key) THEN Unbound(match)
        ELSE IF colons = 2 THEN Identifier(vals.props[key])
        ELSE escape(vals.props[key])) \o replace(s, last + 1, colons, vals)
  ELSE <<s[i]>> \o replace(s, i + 1, colons, vals)

\* slip: values first, then identifiers over the result
bindQueryParams_valuesFirst(sql, vals) == replace(replace(sql, 1, 1, vals), 1, 2, vals)

\* bindQueryParams(sql, values): identifiers, then values over the result
bindQueryParams(sql, vals) == replace(replace(sql, 1, 2, vals), 1, 1, vals)

\* the directives used in the templates
SqlEscape == "{{sqlEscape k}}"
SqlEscapeId == "{{sqlEscapeId k}}"
Directives == {SqlEscape, SqlEscapeId}

\* the one key the parameter sets have: k
KeyK == <<"k">>

\* Handlebars.registerHelper('sqlEscapeId', id => bindQueryParams('::id', { id }))
sqlEscapeId(id) ==
  bindQueryParams(<<":", ":", "i", "d">>, Object([key \in {<<"i", "d">>} |-> id]))

\* Handlebars.registerHelper('sqlEscape', value => bindQueryParams(':value', { value }))
sqlEscape(value) ==
  bindQueryParams(<<":", "v", "a", "l", "u", "e">>,
                  Object([key \in {<<"v", "a", "l", "u", "e">>} |-> value]))

\* a block whose keyword is no helper and no parameter
Undeclared == "{{#undeclared}}{{/undeclared}}"

\* the iteration of tests/query.js, on one line
Each ==
  "{{#each search}}{{sqlEscapeId @key}} = {{sqlEscape this}}{{#unless @last}} AND {{/unless}}{{/each}}"

\* the key the iteration runs over
KeySearch == <<"s", "e", "a", "r", "c", "h">>

\* an object whose entries are iterated: its own properties in insertion order
Entries(entries) == [type |-> "object", entries |-> entries]

\* {{#each search}}...{{/each}}: the body once for each entry, @key and this being
\* the entry's key and value, @last true for the last entry only
each(entries) ==
  join([i \in 1..Len(entries) |->
          sqlEscapeId(Str(entries[i].key)) \o <<" ", "=", " ">> \o sqlEscape(entries[i].value)
            \o (IF i = Len(entries) THEN <<>> ELSE <<" ", "A", "N", "D", " ">>)],
       <<>>)

\* what the compiled template writes for one element of the template: a
\* character as it is, a helper call with the value of k (strict: k must exist);
\* an unknown block keyword is looked up in the values as strictly
Render(token, vals) ==
  IF token = Undeclared THEN <<NotDefined>>
  ELSE IF token = Each
  THEN (IF hasOwnProperty(vals, KeySearch) THEN each(vals.props[KeySearch].entries)
        ELSE <<NotDefined>>)
  ELSE IF token \notin Directives THEN <<token>>
  ELSE IF ~hasOwnProperty(vals, KeyK) THEN <<NotDefined>>
  ELSE IF token = SqlEscape THEN sqlEscape(vals.props[KeyK])
  ELSE sqlEscapeId(vals.props[KeyK])

RECURSIVE compile(_, _)
\* Handlebars.compile(query, { strict: true, noEscape: true, ... })(values)
compile(template, vals) ==
  IF template = <<>> THEN <<>>
  ELSE Render(Head(template), vals) \o compile(Tail(template), vals)

RECURSIVE trimStart(_)
trimStart(s) == IF s # <<>> /\ IsSpace(Head(s)) THEN trimStart(Tail(s)) ELSE s

RECURSIVE trimEnd(_)
trimEnd(s) ==
  IF s # <<>> /\ IsSpace(s[Len(s)]) THEN trimEnd(SubSeq(s, 1, Len(s) - 1)) ELSE s

\* endent(v) on text of one line: the indentation and the blanks at both ends go
endent(v) == trimEnd(trimStart(v))

\* .split(';').map(v => endent(v)).join(';\n\n')
Statements(sql) ==
  LET parts == split(sql, ";") IN
  join([i \in 1..Len(parts) |-> endent(parts[i])], <<";", "\n", "\n">>)

\* slip: only undefined and null count as no values
ReturnsQuery_nullishOnly(vals) == vals.type \in {"undefined", "null"}

\* if (!values || (values?.length === 0)) { return query; }
ReturnsQuery(vals) ==
  \/ vals.type \in {"undefined", "null"}
  \/ vals.type = "array" /\ Len(vals.items) = 0

\* the elements templates are made of
Tokens == {":", "k", " ", ";"} \cup Directives

RECURSIVE Templates(_)
\* the templates of n elements or fewer
Templates(n) ==
  IF n = 0 THEN {<<>>}
  ELSE LET shorter == Templates(n - 1) IN
       shorter \cup {Append(t, e) : t \in {t \in shorter : Len(t) = n - 1}, e \in Tokens}

\* what k is bound to: a name, a dotted path in application casing, text that
\* reads as a marker, text with a statement separator, a number
BoundValues ==
  { Str(<<"a">>), Str(<<"a", "B", ".", "c">>), Str(<<":", "k">>), Str(<<"a", ";", "b">>),
    Num(<<"7">>) }

\* the values queryFormat is called with
ParameterSets ==
  {Undefined, NullValue, List(<<>>)}
    \cup {Object([key \in {KeyK} |-> value]) : value \in BoundValues}

InitFormat ==
  /\ testMode = TRUE
  /\ lazyConnect = TRUE
  /\ production = FALSE
  /\ sshHost = FALSE
  /\ maxExecutionTime = DefaultMaxExecutionTime
  /\ resultedPool = "testPool"
  /\ InitInstance
  /\ formatting \in {[IdleFormat EXCEPT !.pc = "called", !.query = template, !.values = vals] :
                       template \in Templates(MaxTokens), vals \in ParameterSets}

\* queryFormat(query, values) up to the template engine
queryFormat ==
  /\ formatting.pc = "called"
  /\ formatting' = IF ReturnsQuery(formatting.values)
                   THEN [formatting EXCEPT !.pc = "done", !.finalQuery = formatting.query]
                   ELSE [formatting EXCEPT !.pc = "compile"]
  /\ UNCHANGED <<config, status, lifecycle, realPool, other>>

\* Handlebars.compile(query, {...})(values): the compiled skeleton, or it throws
handlebars ==
  /\ formatting.pc = "compile"
  /\ LET compiled == compile(formatting.query, formatting.values) IN
     formatting' = IF Thrown(compiled)
                   THEN [formatting EXCEPT !.pc = "done", !.error = ThrownError(compiled)]
                   ELSE [formatting EXCEPT !.pc = "bind", !.compiled = compiled]
  /\ UNCHANGED <<config, status, lifecycle, realPool, other>>

\* bindQueryParams(<the compiled skeleton>, values), or it throws
bind ==
  /\ formatting.pc = "bind"
  /\ LET bound == bindQueryParams(formatting.compiled, formatting.values) IN
     formatting' = IF Thrown(bound)
                   THEN [formatting EXCEPT !.pc = "done", !.error = ThrownError(bound)]
                   ELSE [formatting EXCEPT !.pc = "statements", !.bound = bound]
  /\ UNCHANGED <<config, status, lifecycle, realPool, other>>

\* .split(';').map(v => endent(v)).join(';\n\n'); return finalQuery
statements ==
  /\ formatting.pc = "statements"
  /\ formatting' = [formatting EXCEPT !.pc = "done",
                                      !.finalQuery = Statements(formatting.bound)]
  /\ UNCHANGED <<config, status, lifecycle, realPool, other>>

NextFormat ==
  \/ queryFormat
  \/ handlebars
  \/ bind
  \/ statements

SpecFormat == InitFormat /\ [][NextFormat]_vars

\* ---- queryFormat on templates with both marker kinds and an iteration -----------------

\* what the templates are put together from: the two markers of k, at the start
\* of the text or after a blank, and the iteration
Pieces ==
  { <<":", ":", "k">>, <<":", "k">>, <<" ", ":", ":", "k">>, <<" ", ":", "k">>, <<Each>> }

RECURSIVE Skeletons(_)
\* the templates of n pieces or fewer, the iteration in them once at most
Skeletons(n) ==
  IF n = 0 THEN {<<>>}
  ELSE Skeletons(n - 1)
         \cup {tp[1] \o tp[2] :
                 tp \in {tp \in Skeletons(n - 1) \X Pieces :
                          tp[2] = <<Each>> => \A i \in 1..Len(tp[1]) : tp[1][i] # Each}}

\* the objects the iteration runs over: none, one, two and three entries
Searches ==
  { Entries(<<>>),
    Entries(<<Col(<<"a", "B">>, Str(<<"a">>))>>),
    Entries(<<Col(<<"k">>, Str(<<"a">>)), Col(<<"a", "B">>, Num(<<"7">>))>>),
    Entries(<<Col(<<"i", "d">>, Str(<<":", "k">>)), Col(<<"k">>, Num(<<"7">>)),
              Col(<<"a", "B">>, Str(<<"a">>))>>) }

\* the values: k as a name, a dotted path, text that reads as a marker; search
ScenarioValues ==
  { Object([key \in {KeyK, KeySearch} |-> IF key = KeyK THEN value ELSE search]) :
      value \in {Str(<<"a">>), Str(<<"a", "B", ".", "c">>), Str(<<":", "k">>)},
      search \in Searches }

InitScenario ==
  /\ testMode = TRUE
  /\ lazyConnect = TRUE
  /\ production = FALSE
  /\ sshHost = FALSE
  /\ maxExecutionTime = DefaultMaxExecutionTime
  /\ resultedPool = "testPool"
  /\ InitInstance
  /\ formatting \in {[IdleFormat EXCEPT !.pc = "called", !.query = template, !.values = vals] :
                       template \in Skeletons(MaxTokens), vals \in ScenarioValues}

SpecScenario == InitScenario /\ [][NextFormat]_vars

\* ---- query() of the test double on templates ------------------------------------------

\* queryFormat.call(mysql, sql, values) as one call: what it returns, or the
\* error it throws in place of a return value
queryFormatReturns(query, vals) ==
  IF ReturnsQuery(vals) THEN [error |-> "none", finalQuery |-> query]
  ELSE LET compiled == compile(query, vals) IN
       IF Thrown(compiled) THEN [error |-> ThrownError(compiled)]
       ELSE LET bound == bindQueryParams(compiled, vals) IN
            IF Thrown(bound) THEN [error |-> ThrownError(bound)]
            ELSE [error |-> "none", finalQuery |-> Statements(bound)]

\* the (sql, values) the host queries the test double with: text before an
\* unknown block, text before a helper; an object without k, k as a string and
\* as a number
FormatCalls ==
  [sql : { <<"k", Undeclared>>, <<"k", SqlEscape>> },
   values : { Object(<<>>), Object([key \in {KeyK} |-> Str(<<"a">>)]),
              Object([key \in {KeyK} |-> Num(<<"7">>)]) }]

\* the SQL those calls are formatted to
FormattedQueries ==
  { queryFormatReturns(call.sql, call.values).finalQuery :
      call \in {call \in FormatCalls : queryFormatReturns(call.sql, call.values).error = "none"} }

\* a RegExp that matches each of them
RegexFormatted == Regex(FormattedQueries)

\* slip: what was rendered before the failure is recorded as the last query
testQueryFormat_recordsPart(sql, values) ==
  /\ transationStarted => Logged(lastTransaction) < MaxLogged
  /\ lastQuery' = Str(IF queryFormatReturns(sql, values).error # "none"
                      THEN <<Head(sql)>>
                      ELSE queryFormatReturns(sql, values).finalQuery)
  /\ lastTransaction' = IF transationStarted
                        THEN PlusEquals(lastTransaction, LogLine(lastQuery'))
                        ELSE lastTransaction
  /\ returned' = IF queryFormatReturns(sql, values).error # "none"
                 THEN [type |-> "rejected", error |-> queryFormatReturns(sql, values).error]
                 ELSE queryReturns(lastQuery'.text)
  /\ history' = [history EXCEPT !.recent = lastQuery', !.cleared = FALSE]
  /\ UNCHANGED <<config, status, formatting, lifecycle, realPool, resultedPool, execution, transationStarted,
                 resultsByMatch>>

\* query(sql, values) of the test double with queryFormat computed: lastQuery =
\* queryFormat.call(mysql, sql, values) is assigned only if the call returns;
\* what it throws rejects the promise of the async function
testQueryFormat(sql, values) ==
  LET call == queryFormatReturns(sql, values) IN
  /\ transationStarted => Logged(lastTransaction) < MaxLogged
  /\ IF call.error # "none"
     THEN /\ returned' = [type |-> "rejected", error |-> call.error]
          /\ UNCHANGED <<lastQuery, lastTransaction, history>>
     ELSE /\ lastQuery' = Str(call.finalQuery)
          /\ lastTransaction' = IF transationStarted
                                THEN PlusEquals(lastTransaction, LogLine(lastQuery'))
                                ELSE lastTransaction
          /\ returned' = queryReturns(call.finalQuery)
          /\ history' = [history EXCEPT !.recent = lastQuery', !.cleared = FALSE,
                                        !.txQueries = IF history.tx = "open"
                                                      THEN Append(@, call.finalQuery)
                                                      ELSE @]
  /\ UNCHANGED <<config, status, formatting, lifecycle, realPool, resultedPool, execution, transationStarted,
                 resultsByMatch>>

\* the test double queried with templates, inside and outside transactions, with
\* and without a matcher for every formatted query
NextTestFormat ==
  \/ \E call \in FormatCalls : testQueryFormat(call.sql, call.values)
  \/ testBeginTransaction
  \/ testCommit
  \/ testRollback
  \/ \E newResultsByMatch \in {<<>>, <<Matcher(RegexFormatted, "any")>>} :
       setResultsByMatch(newResultsByMatch)
  \/ clearAll

SpecTestFormat == InitTest /\ [][NextTestFormat]_vars

\* ---- claims ------------------------------------------------------------------------

NoDisconnectCalled == \A d \in Disconnects : disconnects[d].pc = "idle"

ResolvedCallers == {c \in Callers : callers[c].pc = "done" /\ callers[c].outcome = "resolved"}

\* C1: outside test mode, connect() invocations that are not separated by a
\* disconnect() (direct ones, the lazy proxy's, executeQuery's) all share one
\* attempt: one promise, one pool, one 'SELECT 1;', and every call that resolves
\* resolves to that one pool, whether it asked for the pool or queried through it.
SingleFlightConnect ==
  (~testMode /\ NoDisconnectCalled) =>
    /\ Len(promises) <= 1
    /\ Len(pools) <= 1
    /\ ProbesOn(Len(pools)) <= 1
    /\ \A c \in Callers : callers[c].att \in {Null, 1}
    /\ \A c \in ResolvedCallers : callers[c].value = 1 /\ Len(pools) = 1

\* two calls of different kinds both resolved to the one pool, one probe made
SingleFlightConnectWitness ==
  /\ ~testMode
  /\ NoDisconnectCalled
  /\ \E c1, c2 \in ResolvedCallers :
       /\ callers[c1].kind = "connect"
       /\ callers[c2].kind = "query"
       /\ callers[c1].value = 1
       /\ callers[c2].value = 1
  /\ ProbesOn(Len(pools)) = 1

\* C2: when the attempt a caller awaits has failed (tunnel or probe), the attempt
\* is rejected, the caller ends rejected with that attempt's error and with no
\* pool, and a caller still awaiting it can take its continuation.
FailureReachesAllAwaiters ==
  \A c \in Callers :
    (callers[c].att # Null /\ promises[callers[c].att].failure # NoError) =>
      /\ promises[callers[c].att].status = "rejected"
      /\ callers[c].pc = "done" =>
           /\ callers[c].outcome = "rejected"
           /\ callers[c].error = promises[callers[c].att].failure
           /\ callers[c].value = Null
      /\ callers[c].pc = "await" => ENABLED awaitConnect(c)
      /\ callers[c].pc = "await2" => ENABLED executeQuery(c)

\* two callers of one failed attempt, both rejected with its error
FailureReachesAllAwaitersWitness ==
  \E c1, c2 \in Callers :
    /\ c1 # c2
    /\ callers[c1].pc = "done"
    /\ callers[c2].pc = "done"
    /\ callers[c1].att = callers[c2].att
    /\ callers[c1].att # Null
    /\ promises[callers[c1].att].failure # NoError
    /\ callers[c1].outcome = "rejected"
    /\ callers[c2].outcome = "rejected"
    /\ callers[c1].error = callers[c2].error

\* C3: a failed attempt does not stay cached: once an attempt is rejected the
\* manager is disconnected again (no cached promise of that attempt), so the
\* next connect() starts a fresh attempt.
FailedAttemptIsDiscarded ==
  \A a \in 1..Len(promises) :
    promises[a].status = "rejected" => connectionPromise # a

\* the step is (or contains) a connect() call made by c
ConnectCalledBy(c) ==
  \/ callers[c].pc = "idle" /\ callers'[c].pc \in {"await", "await2"}
  \/ callers[c].pc \in {"await", "checkout"} /\ callers'[c].pc = "await2"

\* C4: a connect() call made while connected creates no promise, pool or tunnel
\* and issues no probe, returns the cached promise, and a connect() caller
\* resolves with the value of the promise it was handed.
ConnectWhileConnectedIsNoOp ==
  [][\A c \in Callers :
       /\ (Connected /\ ConnectCalledBy(c)) =>
            /\ promises' = promises
            /\ pools' = pools
            /\ tunnels' = tunnels
            /\ callers'[c].att = connectionPromise
       /\ (callers[c].pc = "await" /\ callers[c].kind = "connect"
             /\ callers'[c].pc = "done" /\ callers'[c].outcome = "resolved") =>
            callers'[c].value = promises[callers[c].att].value
     ]_vars

\* a lazy query whose executeQuery called connect() after the first attempt had
\* resolved, with no disconnect() since: it awaits attempt 1, no second attempt
ConnectWhileConnectedWitness ==
  /\ Connected
  /\ NoDisconnectCalled
  /\ Len(promises) = 1
  /\ \E c \in Callers :
       /\ callers[c].kind = "query"
       /\ callers[c].pc = "await2"
       /\ callers[c].att = connectionPromise
  /\ \E c \in ResolvedCallers : callers[c].kind = "connect" /\ callers[c].value = pool

\* the state of the manager as the lifecycle names it; "failed" is a cached
\* attempt that was rejected, which is none of the four named states
ConnectionState ==
  IF \E d \in Disconnects : disconnects[d].pc = "ending" THEN "disconnecting"
  ELSE IF connectionPromise = Null THEN "disconnected"
  ELSE IF promises[connectionPromise].status = "pending" THEN "connecting"
  ELSE IF promises[connectionPromise].status = "resolved" THEN "connected"
  ELSE "failed"

LifecycleEdges ==
  {<<"disconnected", "connecting">>, <<"connecting", "connected">>,
   <<"connected", "disconnecting">>, <<"disconnecting", "disconnected">>,
   <<"connecting", "disconnected">>}

\* C5: the connection state changes only along disconnected -> connecting ->
\* connected -> disconnecting -> disconnected, or connecting -> disconnected on
\* failure, and the manager is connected only while its pool is set and not ended.
LifecycleOrder ==
  [][/\ \/ ConnectionState' = ConnectionState
        \/ <<ConnectionState, ConnectionState'>> \in LifecycleEdges
     /\ (ConnectionState = "connected")' => (pool # Null /\ ~pools[pool].endSettled)'
    ]_vars

\* C6: one lifecycle transition at a time: no pool.end() is outstanding while a
\* connect attempt is pending, and no two disconnect() calls have pool.end()
\* outstanding on the same pool.
SingleTransitionInFlight ==
  /\ ~ /\ \E a \in 1..Len(promises) : promises[a].status = "pending"
       /\ \E d \in Disconnects : disconnects[d].pc = "ending"
  /\ \A d1, d2 \in Disconnects :
       (d1 # d2 /\ disconnects[d1].pc = "ending" /\ disconnects[d2].pc = "ending")
         => disconnects[d1].target # disconnects[d2].target

\* C7: outside test mode no connect promise resolves with a pool whose probe has
\* not succeeded, and no caller statement is handed to a pool or to one of its
\* connections before the probe has succeeded on that pool.
ProbeBeforeReady ==
  [][/\ \A a \in 1..Len(promises') :
          (promises'[a].status = "resolved" /\ promises'[a].value # Null)
            => pools'[promises'[a].value].probeOk
     /\ \A p \in 1..Len(pools) :
          pools'[p].dispatched > pools[p].dispatched => pools[p].probeOk
    ]_vars

\* C8: with an SSH host configured every pool was created by an attempt whose
\* tunnel is up, with the local endpoint of that tunnel as its host/port, and
\* an attempt whose tunnel failed has created no pool.
PoolOverEstablishedTunnel ==
  sshHost =>
    /\ \A p \in 1..Len(pools) :
         \E a \in 1..Len(promises) :
           /\ promises[a].corePool = p
           /\ promises[a].tunnel \in 1..Len(tunnels)
           /\ pools[p].host = promises[a].tunnel
    /\ \A a \in 1..Len(promises) :
         (promises[a].failure # NoError /\ promises[a].failure[1] = "tunnel")
           => promises[a].corePool = Null
    /\ Len(pools) <= Len(tunnels)

\* a pool over its tunnel, and a later attempt whose tunnel failed
PoolOverEstablishedTunnelWitness ==
  /\ sshHost
  /\ \E p \in 1..Len(pools) : pools[p].host # Null
  /\ \E a \in 1..Len(promises) :
       /\ promises[a].failure = <<"tunnel", a>>
       /\ promises[a].corePool = Null

\* C9: a tunnel server is closed only once every pool created over it has been
\* ended (its pool.end() has settled).
TunnelOutlivesPool ==
  \A t \in 1..Len(tunnels) :
    tunnels[t].closed =>
      \A p \in 1..Len(pools) : pools[p].host = t => pools[p].endSettled

\* C10: every new physical connection is sent the time zone and, when a maximum
\* execution time is configured, the max_execution_time setting, and a failure
\* of either one is raised.
SessionSettingsAreMandatory ==
  \A k \in 1..Len(conns) :
    /\ conns[k].tz # "none"
    /\ maxExecutionTime # 0 => conns[k].met # "none"
    /\ conns[k].tz = "failed" => "time_zone" \in conns[k].raised
    /\ conns[k].met = "failed" => "max_execution_time" \in conns[k].raised

\* no call has been made on the instance yet
NoCallMade == \A c \in Callers : callers[c].pc = "idle"

\* C11: with lazy connect on and test mode off, as long as no query,
\* getConnection, beginTransaction or connect() has been called there is no
\* connect attempt, no tunnel, no pool and no probe; the first attempt is
\* started by the step in which one of these calls is made.
LazyConnectDefers ==
  (~testMode /\ lazyConnect /\ NoCallMade) =>
    /\ connectionPromise = Null
    /\ Len(promises) = 0
    /\ Len(tunnels) = 0
    /\ Len(pools) = 0
    /\ pool = Null

\* the instance was built lazily with nothing created, and a beginTransaction()
\* made on it afterwards has by now created the pool and had it probed
LazyConnectDefersWitness ==
  /\ ~testMode
  /\ lazyConnect
  /\ resultedPool = "lazyPool"
  /\ \E c \in Callers : callers[c].kind = "beginTransaction" /\ callers[c].att = 1
  /\ Len(pools) = 1
  /\ pools[1].probeOk

\* the 'ROLLBACK;' statements query q has issued
Rollbacks(q) == {i \in 1..Len(queries[q].ran) : queries[q].ran[i].sql = "ROLLBACK;"}

Rejected(q) == queries[q].pc = "done" /\ queries[q].outcome = "rejected"

\* C12: a query whose statement failed issues exactly one 'ROLLBACK;', and when
\* it ends the caller has the error of its own statement, also when the
\* rollback failed.
RollbackIsBestEffort ==
  \A q \in Queries :
    queries[q].failure # NoSqlError =>
      /\ Cardinality(Rollbacks(q)) = 1
      /\ queries[q].pc = "done" =>
           /\ queries[q].outcome = "rejected"
           /\ queries[q].error.origin = "query"

\* C13: in production every error a caller receives from a failed query carries
\* the generic message 'SQL error' and the driver's message in rawMessage.
ProductionErrorsObfuscated ==
  production =>
    \A q \in Queries :
      Rejected(q) =>
        /\ queries[q].error.message = "SQL error"
        /\ queries[q].error.rawMessage = "driver message"

\* C14: every statement a query() on a checked-out connection (a transaction
\* object in particular) hands to the driver, the automatic 'ROLLBACK;' included,
\* is called on that connection: not on the pool, not on another connection.
TransactionAffinity ==
  \A q \in Queries :
    queries[q].this # PoolProvider =>
      \A i \in 1..Len(queries[q].ran) : queries[q].ran[i].on = queries[q].this

\* a failed statement of an open transaction, its 'ROLLBACK;' issued on the
\* transaction's connection while another connection is checked out
TransactionAffinityWitness ==
  \E q \in Queries :
    /\ queries[q].this # PoolProvider
    /\ checkouts[queries[q].this].transaction
    /\ checkouts[queries[q].this].inUse
    /\ Rollbacks(q) # {}
    /\ \E k \in 1..Len(checkouts) : k # queries[q].this /\ checkouts[k].inUse

Resolved(q) == queries[q].pc = "done" /\ queries[q].outcome = "resolved"

\* the column names of a row
KeysOf(row) == {row.cols[i].key : i \in 1..Len(row.cols)}

RECURSIVE InCamelCase(_, _)
\* out is what the driver returned as from, with the keys of every row in
\* camelCase: the same arrays and headers, per row the camelCase forms of its
\* keys, each with the value of the column it stands for (when only one does)
InCamelCase(out, from) ==
  CASE from.kind = "array" ->
         /\ out.kind = "array"
         /\ Len(out.items) = Len(from.items)
         /\ \A i \in 1..Len(from.items) : InCamelCase(out.items[i], from.items[i])
    [] from.kind = "row" ->
         /\ out.kind = "row"
         /\ KeysOf(out) = {camelCase(key) : key \in KeysOf(from)}
         /\ \A key \in KeysOf(from) :
              (\A other_key \in KeysOf(from) :
                 camelCase(other_key) = camelCase(key) => other_key = key)
                => GetKey(out.cols, camelCase(key)) = GetKey(from.cols, key)
    [] OTHER -> out = from

\* C15: a query that succeeds returns, with nativeQuery = true in the merged
\* config, the driver's tuple [results, meta] untouched whatever
\* keepOriginalCasing is; otherwise the results alone, exactly as the driver
\* returned them when keepOriginalCasing = true and with every row's keys in
\* camelCase when not.
ResultShaping ==
  \A q \in Queries :
    Resolved(q) =>
      LET merged == queries[q].mergedQueryConfig
          native == "nativeQuery" \in DOMAIN merged /\ merged["nativeQuery"]
          keep == "keepOriginalCasing" \in DOMAIN merged /\ merged["keepOriginalCasing"]
      IN IF native
         THEN queries[q].value = [shape |-> "tuple", results |-> queries[q].driver,
                                  meta |-> Fields]
         ELSE IF keep
         THEN queries[q].value = [shape |-> "results", results |-> queries[q].driver]
         ELSE /\ queries[q].value.shape = "results"
              /\ InCamelCase(queries[q].value.results, queries[q].driver)

\* nativeQuery = true together with keepOriginalCasing = false: the rows came
\* back with their snake_case keys, inside the tuple
ResultShapingWitness ==
  \E q \in Queries :
    /\ Resolved(q)
    /\ queries[q].mergedQueryConfig = [nativeQuery |-> TRUE, keepOriginalCasing |-> FALSE]
    /\ queries[q].driver.kind = "array"
    /\ Len(queries[q].driver.items) = 2
    /\ queries[q].driver # convertColumnNameCasing(queries[q].driver)
    /\ queries[q].value.shape = "tuple"

\* C16: the config a call runs with has, key by key, the call-level value when
\* the call-level config has the key, else the value of the config its provider
\* was checked out with, else nothing; the pool has no provider-level config,
\* nor has a connection checked out without one.
ConfigMergesPerCall ==
  [][\A q \in Queries :
       (queries[q].pc # "running" /\ queries'[q].pc = "running") =>
         LET call == queries'[q].queryConfig
             provider == IF queries'[q].this = PoolProvider THEN NoConfig
                         ELSE checkouts[queries'[q].this].given
             merged == queries'[q].mergedQueryConfig
         IN \A key \in ConfigKeys :
              IF key \in DOMAIN call
              THEN key \in DOMAIN merged /\ merged[key] = call[key]
              ELSE IF key \in DOMAIN provider
              THEN key \in DOMAIN merged /\ merged[key] = provider[key]
              ELSE key \notin DOMAIN merged
    ]_vars

\* a call on a connection that overrides one key of its provider's config and
\* inherits the other, while a connection object that once carried a config is
\* checked out again without one
ConfigMergesPerCallWitness ==
  \E q \in Queries, k \in 1..Len(checkouts) :
    /\ queries[q].pc = "running"
    /\ queries[q].this # PoolProvider
    /\ queries[q].this # k
    /\ checkouts[queries[q].this].given = [nativeQuery |-> FALSE, keepOriginalCasing |-> FALSE]
    /\ queries[q].queryConfig = [nativeQuery |-> TRUE]
    /\ queries[q].mergedQueryConfig = [nativeQuery |-> TRUE, keepOriginalCasing |-> FALSE]
    /\ checkouts[k].inUse
    /\ checkouts[k].given = NoConfig

\* C17: a call of escape, escapeId or format returns the driver's result in
\* every lifecycle state and in test mode: it never throws.
PassthroughAlwaysAnswers ==
  \A c \in Callers :
    callers[c].kind = "escape" => callers[c].outcome = "resolved"

\* the step is a query() call of the test double that succeeds
QuerySucceeds(query) == testQuery(query) /\ ~QueryFormatThrows(query)

\* the places in the matcher list, as it is when the query is made, of the
\* matchers that match the bound query
Matching(query) ==
  IF resultsByMatch.type # "array" THEN {}
  ELSE {i \in 1..Len(resultsByMatch.items) :
          BoundQuery(query) \in resultsByMatch.items[i].regex.matches}

\* C18: a query() of the test double that one or several matchers of the list
\* match resolves with the canned result of the one that comes first in the list.
FirstMatchWins ==
  [][\A query \in TestQueries :
       (QuerySucceeds(query) /\ Matching(query) # {}) =>
         \E i \in Matching(query) :
           /\ \A j \in Matching(query) : i <= j
           /\ returned' = [type |-> "result", name |-> resultsByMatch.items[i].result]
    ]_vars

\* the catch-all matcher listed before the specific one answered a SELECT
FirstMatchWinsWitness ==
  /\ resultsByMatch = List(<<Matcher(RegexAny, "any"), Matcher(RegexSelect, "users")>>)
  /\ lastQuery = Str(<<BoundQuery("select")>>)
  /\ returned = [type |-> "result", name |-> "any"]

\* a query() that no matcher applies to, or made with no list set, resolves
\* with an empty result set
UnmatchedQueryIsEmpty ==
  \A query \in TestQueries :
    (QuerySucceeds(query) /\ Matching(query) = {}) => returned' = List(<<>>)

\* C19 as stated: once a query() has succeeded, getLastQuery() is, after any
\* operation, the bound SQL of the latest query() that succeeded, and an
\* unmatched query resolves with an empty result set.
LastQueryIsMostRecent ==
  [][/\ history'.recent # Undefined => getLastQuery' = history'.recent
     /\ UnmatchedQueryIsEmpty
    ]_vars

\* C19 amended: getLastQuery() is the bound SQL of the latest query() that
\* succeeded unless clearLastQuery() or clearAll() was called since, and null
\* then; an unmatched query resolves with an empty result set.
LastQueryUnlessCleared ==
  [][/\ history'.recent # Undefined =>
          getLastQuery' = IF history'.cleared THEN NullValue ELSE history'.recent
     /\ UnmatchedQueryIsEmpty
    ]_vars

\* inside a transaction, with a list set of which no matcher applies: the query
\* resolved with [] and is the last query
LastQueryUnlessClearedWitness ==
  /\ transationStarted
  /\ resultsByMatch = List(<<Matcher(RegexInsert, "logs")>>)
  /\ history.recent = Str(<<BoundQuery("select")>>)
  /\ ~history.cleared
  /\ getLastQuery = Str(<<BoundQuery("select")>>)
  /\ returned = List(<<>>)

RECURSIVE LogLines(_)
\* '\n' + bound + ';' for each of the bound queries, in order
LogLines(bound) ==
  IF bound = <<>> THEN <<>>
  ELSE <<"\n", Head(bound), ";">> \o LogLines(Tail(bound))

Closed == history.tx \in {"COMMIT;", "ROLLBACK;"}

\* C21: a query() made after commit() or rollback() closed the log, and before
\* the next beginTransaction() or clear, is not appended: getLastTransaction()
\* is after it what it was before it, whether the query binds or throws.
ClosedLogIsKept ==
  [][\A query \in TestQueries :
       (Closed /\ testQuery(query)) =>
         /\ getLastTransaction' = getLastTransaction
         /\ Closed'
    ]_vars

\* a rolled-back transaction of one INSERT, and a SELECT that bound after the
\* rollback: it is the last query and the log does not hold it
ClosedLogIsKeptWitness ==
  /\ history.tx = "ROLLBACK;"
  /\ history.txQueries = <<BoundQuery("insert")>>
  /\ getLastQuery = Str(<<BoundQuery("select")>>)
  /\ getLastTransaction =
       Str(<<"START TRANSACTION;", "\n", BoundQuery("insert"), ";", "\n", "ROLLBACK;">>)
\* C22: clearLastQuery() changes only the last-query slot, clearResultsByMatch()
\* only the matcher list, clearLastTransaction() only the transaction log and
\* its open flag, clearAll() clears all four; query(), commit() and rollback()
\* never change the matcher list, and a query() made with no transaction open
\* never changes the transaction log.
ClearsAreExplicit ==
  [][/\ clearLastQuery =>
          /\ lastQuery' = NullValue
          /\ UNCHANGED <<resultsByMatch, lastTransaction, transationStarted>>
     /\ clearResultsByMatch =>
          /\ resultsByMatch' = NullValue
          /\ UNCHANGED <<lastQuery, lastTransaction, transationStarted>>
     /\ clearLastTransaction =>
          /\ lastTransaction' = NullValue
          /\ transationStarted' = FALSE
          /\ UNCHANGED <<lastQuery, resultsByMatch>>
     /\ clearAll =>
          /\ lastQuery' = NullValue
          /\ resultsByMatch' = NullValue
          /\ lastTransaction' = NullValue
          /\ transationStarted' = FALSE
     /\ ((\E query \in TestQueries : testQuery(query)) \/ testCommit \/ testRollback) =>
          UNCHANGED resultsByMatch
     /\ (~transationStarted /\ \E query \in TestQueries : testQuery(query)) =>
          UNCHANGED <<lastTransaction, transationStarted>>
    ]_vars

\* clearLastQuery() was called after a query of the open transaction: the last
\* query is null while the log, its open flag and the matcher list are kept
ClearsAreExplicitWitness ==
  /\ getLastQuery = NullValue
  /\ history.cleared
  /\ history.tx = "open"
  /\ history.txQueries = <<BoundQuery("select")>>
  /\ transationStarted
  /\ getLastTransaction = Str(<<"START TRANSACTION;", "\n", BoundQuery("select"), ";">>)
  /\ resultsByMatch = List(<<Matcher(RegexInsert, "logs")>>)
\* C23: in test mode no sequence of connect, disconnect, query, getConnection,
\* beginTransaction, commit, rollback and release calls creates a pool or an
\* SSH tunnel or runs a probe query: no connection attempt exists, connect()
\* has resolved as soon as it is called and no call is left waiting.
TestModeIsInMemory ==
  testMode =>
    /\ pools = <<>> /\ tunnels = <<>> /\ conns = <<>> /\ promises = <<>>
    /\ pool = Null /\ tunnelServer = Null /\ connectionPromise = Null
    /\ ProbesOn(Len(pools)) = 0
    /\ \A c \in Callers :
         callers[c].pc # "idle" => callers[c].pc = "done" /\ callers[c].outcome = "resolved"
    /\ \A d \in Disconnects : disconnects[d].pc \in {"idle", "done"}

\* connect(), a transaction of one query that was committed, a getConnection()
\* and disconnect() have all been called
TestModeIsInMemoryWitness ==
  /\ testMode
  /\ callers[1].kind = "connect" /\ callers[1].pc = "done"
  /\ disconnects[1].pc = "done"
  /\ history.tx = "COMMIT;"
  /\ history.txQueries = <<BoundQuery("select")>>
  /\ returned = [type |-> "testPool"]
\* bindQueryParams has returned the bound text of the compiled skeleton
Bound == formatting.pc \in {"statements", "done"} /\ formatting.bound # <<>>

\* queryFormat has returned the final query
Formatted == formatting.pc = "done" /\ formatting.error = "none"

\* piece stands in text at i
StandsAt(text, i, piece) ==
  i + Len(piece) - 1 <= Len(text) /\ SubSeq(text, i, i + Len(piece) - 1) = piece

\* the places of text where piece stands
Places(text, piece) == {i \in 1..Len(text) : StandsAt(text, i, piece)}

\* the places of text where piece stands and no \w character follows it
Occurrences(text, piece) ==
  {i \in Places(text, piece) :
     i + Len(piece) <= Len(text) => ~IsWord(text[i + Len(piece)])}

\* the key names that follow a colon in text
MarkerKeys(text) ==
  {SubSeq(text, i + 1, WordRun(text, i + 1)) :
     i \in {i \in 1..(Len(text) - 1) : text[i] = ":" /\ IsWord(text[i + 1])}}

\* piece is kept wherever it stands: it stands in `to` as often as in `from`
Kept(piece, from, to) ==
  Cardinality(Occurrences(to, piece)) >= Cardinality(Occurrences(from, piece))

\* the places of text where a marker of `colons` colons for key stands, with no
\* \w character and no colon before it
Markers(text, colons, key) ==
  {i \in Occurrences(text, [c \in 1..colons |-> ":"] \o key) :
     i > 1 => ~IsWord(text[i - 1]) /\ text[i - 1] # ":"}

\* C24: with a non-empty parameter set, a marker ':key' or '::key' whose key the
\* set does not have stands in the bound text and in the final query as it stood
\* in the skeleton, and it makes nothing throw (binding throws only where an
\* identifier marker or sqlEscapeId is given a number); a marker whose key the
\* set has is substituted: the text gets one escaped literal, or one escaped
\* identifier, for each (counted where the skeleton had none to begin with).
AbsentKeyKeepsMarker ==
  (formatting.values.type = "object" /\ formatting.pc \in {"statements", "done"}) =>
    /\ formatting.error = TypeError =>
         /\ formatting.values.props[KeyK].type = "number"
         /\ \/ Places(formatting.compiled, <<":", ":", "k">>) # {}
            \/ Places(formatting.query, <<SqlEscapeId>>) # {}
    /\ \A key \in MarkerKeys(formatting.compiled) \ DOMAIN formatting.values.props :
         \A colons \in 1..2 :
           /\ Bound => Kept([c \in 1..colons |-> ":"] \o key, formatting.compiled,
                            formatting.bound)
           /\ Formatted => Kept([c \in 1..colons |-> ":"] \o key, formatting.compiled,
                                formatting.finalQuery)
    /\ Bound =>
         LET literal == escape(formatting.values.props[KeyK]) IN
         Places(formatting.compiled, literal) = {} =>
           Cardinality(Places(formatting.bound, literal)) >=
             Cardinality(Markers(formatting.compiled, 1, KeyK))
    /\ (Bound /\ formatting.values.props[KeyK] = Str(<<"a">>)) =>
         LET identifier == <<Backtick, "a", Backtick>> IN
         Places(formatting.compiled, identifier) = {} =>
           Cardinality(Places(formatting.bound, identifier)) >=
             Cardinality(Markers(formatting.compiled, 2, KeyK))

\* '::kk' with k bound and kk not: the final query is the template
AbsentKeyKeepsMarkerWitness ==
  /\ Formatted
  /\ formatting.query = <<":", ":", "k", "k">>
  /\ formatting.values = Object([key \in {KeyK} |-> Str(<<"a">>)])
  /\ formatting.finalQuery = <<":", ":", "k", "k">>

\* the segments of the dotted paths k is bound to
PathSegments(value) ==
  IF value = Str(<<"a", "B", ".", "c">>) THEN <<<<"a", "B">>, <<"c">>>> ELSE <<>>

\* C25: an identifier marker bound to a dotted path 'a.b' is replaced by
\* escapeId(snake_case of a) + '.' + escapeId(snake_case of b), in the bound text
\* and in the final query.
PathIsEscapedBySegment ==
  \A value \in BoundValues :
    ( /\ PathSegments(value) # <<>>
      /\ formatting.values = Object([key \in {KeyK} |-> value])
      /\ Markers(formatting.compiled, 2, KeyK) # {} ) =>
      LET a == PathSegments(value)[1]
          b == PathSegments(value)[2]
          expected == escapeId(snakeCase(a)) \o <<".">> \o escapeId(snakeCase(b)) IN
      /\ Bound => Places(formatting.bound, expected) # {}
      /\ Formatted => Places(formatting.finalQuery, expected) # {}
      /\ (Formatted /\ formatting.query = <<":", ":", "k">>) =>
           formatting.finalQuery = expected

\* '::k' with k bound to 'aB.c' came out as `a_b`.`c`
PathIsEscapedBySegmentWitness ==
  /\ Formatted
  /\ formatting.query = <<":", ":", "k">>
  /\ formatting.values = Object([key \in {KeyK} |-> Str(<<"a", "B", ".", "c">>)])
  /\ formatting.finalQuery =
       <<Backtick, "a", "_", "b", Backtick, ".", Backtick, "c", Backtick>>

\* C26: wherever '::k' stands in a template without directives, whatever stands
\* before it, the bound text never has ':' followed by the escaped value of k.
IdentifierMarkerNeverSplit ==
  ( /\ Bound
    /\ formatting.query = formatting.compiled
    /\ hasOwnProperty(formatting.values, KeyK)
    /\ Occurrences(formatting.compiled, <<":", ":", "k">>) # {} ) =>
    Places(formatting.bound, <<":">> \o escape(formatting.values.props[KeyK])) = {}

\* C27: text a substitution put in is final.  A template whose own text has no
\* colon has no marker of its own, so all a pass over its compiled skeleton
\* could find is inside what the inline helpers put in: the bound text is the
\* compiled skeleton.
EscapedTextIsFinal ==
  (Bound /\ \A i \in 1..Len(formatting.query) : formatting.query[i] # ":") =>
    formatting.bound = formatting.compiled

\* C28: the final split on ';' changes the layout between statements only: the
\* escaped literal of k stands in the final query as often as in the bound text.
StatementSplitIsCosmetic ==
  (Formatted /\ hasOwnProperty(formatting.values, KeyK)) =>
    LET literal == escape(formatting.values.props[KeyK]) IN
    Cardinality(Places(formatting.finalQuery, literal))
      = Cardinality(Places(formatting.bound, literal))

\* queryFormat was called without values: undefined, null or an empty array
WithoutValues ==
  formatting.values \in {Undefined, NullValue, List(<<>>)} /\ formatting.pc # "idle"

\* C29: queryFormat called with undefined, null or an empty array as values
\* returns the query as it is: nothing is compiled, bound or split, nothing
\* throws.
NoValuesReturnsQuery ==
  WithoutValues =>
    /\ formatting.pc \in {"called", "done"}
    /\ formatting.compiled = <<>> /\ formatting.bound = <<>>
    /\ formatting.error = "none"
    /\ formatting.pc = "done" => formatting.finalQuery = formatting.query

\* ' :k;' with an empty array came back with its blank, marker and separator
NoValuesReturnsQueryWitness ==
  /\ formatting.pc = "done"
  /\ formatting.values = List(<<>>)
  /\ formatting.query = <<" ", ":", "k", ";">>
  /\ formatting.finalQuery = <<" ", ":", "k", ";">>
\* C30: convertColumnNameCasing applied to what it returned changes nothing,
\* for rows, nested arrays of rows and metadata rows.
CasingIsIdempotent ==
  \A q \in Queries :
    (Resolved(q) /\ queries[q].value.shape = "results") =>
      convertColumnNameCasing(queries[q].value.results) = queries[q].value.results
RECURSIVE Converted(_, _)
\* `after` is `before` with the keys of every row, at every depth, replaced by
\* their camelCase forms: each key of a row is camelCase of a key the row had and
\* carries the value of such a key, of one that was renamed if there is one; no
\* key occurs twice and none is lost; metadata rows and what is not an array
\* are as they were
Converted(before, after) ==
  IF before.kind # "array" THEN after = before
  ELSE /\ after.kind = "array"
       /\ Len(after.items) = Len(before.items)
       /\ \A i \in 1..Len(before.items) :
            LET was == before.items[i]
                is == after.items[i] IN
            IF was.kind = "array" THEN Converted(was, is)
            ELSE IF was.kind = "ResultSetHeader" THEN is = was
            ELSE /\ is.kind = "row"
                 /\ \A j, k \in 1..Len(is.cols) : is.cols[j].key = is.cols[k].key => j = k
                 /\ \A j \in 1..Len(was.cols) : HasKey(is.cols, camelCase(was.cols[j].key))
                 /\ \A j \in 1..Len(is.cols) :
                      LET from == {k \in 1..Len(was.cols) :
                                     camelCase(was.cols[k].key) = is.cols[j].key}
                          renamed == {k \in from : was.cols[k].key # is.cols[j].key} IN
                      /\ from # {}
                      /\ \E k \in (IF renamed # {} THEN renamed ELSE from) :
                           is.cols[j].value = was.cols[k].value

\* C31: what convertColumnNameCasing leaves behind has, in every row at every
\* depth of arrays, only the camelCase forms of the row's keys, each with the
\* value of the key it stands for; ResultSetHeader rows and results that are no
\* array are unchanged.
RowsAreCamelCased ==
  \A q \in Queries :
    (Resolved(q) /\ queries[q].value.shape = "results") =>
      Converted(queries[q].driver, queries[q].value.results)

\* the call queryFormat throws on because the template does not compile
CompilationFails(call) ==
  /\ ~ReturnsQuery(call.values)
  /\ Thrown(compile(call.sql, call.values))

\* C32: a query whose template fails to compile (an unknown block keyword, a
\* parameter that is missing under strict) rejects with the error and with no
\* SQL text; in test mode it leaves the last query, the transaction log, the
\* open flag and the matcher list as they were and returns no canned result.
FailedCompilationLeavesNoTrace ==
  [][\A call \in FormatCalls :
       (CompilationFails(call) /\ testQueryFormat(call.sql, call.values)) =>
         /\ returned' = [type |-> "rejected", error |-> returned'.error]
         /\ returned'.error = NotDefined
         /\ lastQuery' = lastQuery
         /\ lastTransaction' = lastTransaction
         /\ transationStarted' = transationStarted
         /\ resultsByMatch' = resultsByMatch]_vars

\* in an open transaction with one statement logged and a matcher for every
\* query, a call failed on a missing name: all of it is still there
FailedCompilationLeavesNoTraceWitness ==
  /\ returned = [type |-> "rejected", error |-> NotDefined]
  /\ transationStarted
  /\ lastQuery = Str(<<"k", "'", "a", "'">>)
  /\ lastTransaction = PlusEquals(Str(<<"START TRANSACTION;">>), LogLine(lastQuery))
  /\ resultsByMatch = List(<<Matcher(RegexFormatted, "any")>>)
\* the places of text where a colon stands
Colons(text) == {i \in 1..Len(text) : text[i] = ":"}

\* every colon of the compiled skeleton is the template's own, and none follows
\* a \w character: the markers are those written in the template
OwnMarkersOnly ==
  /\ Cardinality(Colons(formatting.compiled)) = Cardinality(Colons(formatting.query))
  /\ \A i \in Colons(formatting.compiled) : i > 1 => ~IsWord(formatting.compiled[i - 1])

RECURSIVE Substituted(_, _, _)
\* text from i on with each '::k' replaced by the escaped identifier of value
\* and each ':k' by its escaped literal
Substituted(text, i, value) ==
  IF i > Len(text) THEN <<>>
  ELSE IF StandsAt(text, i, <<":", ":", "k">>)
  THEN Identifier(value) \o Substituted(text, i + 3, value)
  ELSE IF StandsAt(text, i, <<":", "k">>)
  THEN escape(value) \o Substituted(text, i + 2, value)
  ELSE <<text[i]>> \o Substituted(text, i + 1, value)

\* 'escapedId(key) = escaped(value)' for each entry in order, ' AND ' between them
Clauses(entries) ==
  join([i \in 1..Len(entries) |->
          escapeId(snakeCase(entries[i].key)) \o <<" ", "=", " ">> \o escape(entries[i].value)],
       <<" ", "A", "N", "D", " ">>)

RECURSIVE WithClauses(_, _)
\* the template with each iteration replaced by the clauses of entries
WithClauses(template, entries) ==
  IF template = <<>> THEN <<>>
  ELSE (IF Head(template) = Each THEN Clauses(entries) ELSE <<Head(template)>>)
         \o WithClauses(Tail(template), entries)

\* C33: with k used by both marker kinds in one template, in either order,
\* each '::k' becomes the escaped snake_case identifier of params[k] and each
\* ':k' the escaped literal of params[k] as passed; an each-block over an object
\* of n entries renders n clauses 'escapedId(key) = escaped(value)' in entry
\* order with the separator n - 1 times.
BothMarkersAndIteration ==
  LET entries == formatting.values.props[KeySearch].entries
      n == Len(entries)
      blocks == Cardinality(Places(formatting.query, <<Each>>))
      k == formatting.values.props[KeyK] IN
  /\ (formatting.pc \in {"bind", "statements", "done"} /\ formatting.error = "none") =>
       /\ formatting.compiled = WithClauses(formatting.query, entries)
       /\ Cardinality(Places(formatting.compiled, <<" ", "=", " ">>)) = blocks * n
       /\ Cardinality(Places(formatting.compiled, <<" ", "A", "N", "D", " ">>)) =
            blocks * (IF n = 0 THEN 0 ELSE n - 1)
  /\ (Bound /\ OwnMarkersOnly) =>
       formatting.bound = Substituted(formatting.compiled, 1, k)
  /\ (Formatted /\ OwnMarkersOnly) =>
       formatting.finalQuery = endent(Substituted(formatting.compiled, 1, k))

\* the iteration over two entries, then '::k' and ':k' with k a dotted path
BothMarkersAndIterationWitness ==
  /\ Formatted
  /\ formatting.query = <<Each, " ", ":", ":", "k", " ", ":", "k">>
  /\ formatting.values.props[KeyK] = Str(<<"a", "B", ".", "c">>)
  /\ Len(formatting.values.props[KeySearch].entries) = 2
  /\ formatting.finalQuery =
       <<Backtick, "k", Backtick, " ", "=", " ", "'", "a", "'", " ", "A", "N", "D", " ",
         Backtick, "a", "_", "b", Backtick, " ", "=", " ", "7", " ",
         Backtick, "a", "_", "b", Backtick, ".", Backtick, "c", Backtick, " ",
         "'", "a", "B", ".", "c", "'">>
\* C34: outside test mode a connect() promise resolves only with a pool, and
\* with one nobody has called end() on, however connect() and disconnect()
\* interleave.
ConnectResolvesWithLivePool ==
  [][~testMode =>
       \A a \in 1..Len(promises) :
         (promises[a].status = "pending" /\ promises'[a].status = "resolved") =>
           /\ promises'[a].value # Null
           /\ ~pools'[promises'[a].value].endCalled]_vars
\* C35: a disconnect() that completes discards only the pool it ended: the pool
\* it sets to null, and the pool of the connect promise it clears, is the one it
\* called end() on.
DisconnectDiscardsOwnPool ==
  [][\A d \in Disconnects :
       (disconnects[d].pc = "ending" /\ disconnects'[d].pc = "done") =>
         /\ pool \in {Null, disconnects[d].target}
         /\ connectionPromise # Null =>
              promises[connectionPromise].corePool \in {Null, disconnects[d].target}]_vars
\* C36: once a disconnect() has completed, a caller's statement goes to a pool
\* created after it: no statement is handed to a pool, or to a connection of a
\* pool, whose end() has settled.
StatementsAfterDisconnectReconnect ==
  [][\A p \in 1..Len(pools) :
       pools'[p].dispatched > pools[p].dispatched => ~pools[p].endSettled]_vars
\* C37: the log of a transaction holds the statements issued through it from
\* its beginTransaction() to its commit() or rollback(); a transaction begun
\* while it is open erases none of them.
OverlappingTransactionsKeepLogs ==
  [][(transationStarted /\ history.tx = "open" /\ testBeginTransaction) =>
       \A i \in 1..Len(history.txQueries) :
         \E j \in 1..Len(AsString(lastTransaction')) :
           AsString(lastTransaction')[j] = history.txQueries[i]]_vars
\* the places of the log where a terminal statement stands
Terminals(text) == {i \in 1..Len(text) : text[i] \in {"COMMIT;", "ROLLBACK;"}}

\* C38: getLastTransaction() is undefined or null, or a log that begins with
\* 'START TRANSACTION;', has one terminal statement at most, and ends with it
\* exactly when no transaction is open.
TransactionLogIsWellFormed ==
  \/ getLastTransaction.type \in {"undefined", "null"}
  \/ /\ getLastTransaction.type = "string"
     /\ Head(getLastTransaction.text) = "START TRANSACTION;"
     /\ Cardinality(Terminals(getLastTransaction.text)) <= 1
     /\ Len(getLastTransaction.text) \in Terminals(getLastTransaction.text) <=> ~transationStarted
\* C39: every call the host makes on the instance, connect() and the proxy's
\* query, getConnection and beginTransaction, eventually settles.
EveryCallSettles ==
  \A c \in Callers : (callers[c].pc # "idle") ~> (callers[c].pc = "done")

\* calls made before and after a disconnect() have settled, one of them rejected
\* and one resolved
EveryCallSettlesWitness ==
  /\ disconnects[1].pc # "idle"
  /\ \E c, d \in Callers :
       /\ c < d
       /\ callers[c].pc = "done" /\ callers[d].pc = "done"
       /\ {callers[c].outcome, callers[d].outcome} = {"rejected", "resolved"}

\* the connect() of call c has just thrown what the tunnel or the probe failed with
ConnectFails(c) ==
  /\ callers[c].pc # "done"
  /\ callers'[c].pc = "done"
  /\ callers'[c].kind = "connect"
  /\ callers'[c].error \in {<<"tunnel", c>>, <<"probe", c>>}

\* C40: in the status-based manager, when a connect() call fails on the tunnel
\* or on the probe, status is 'disconnected' once the failure reaches the caller.
FailedConnectReturnsToDisconnected ==
  [][\A c \in Callers : ConnectFails(c) => status' = "disconnected"]_vars
====
